---- MODULE Spec2Model ----
(***************************************************************************)
(* State-machine model of llm_guardian: the circuit breaker                *)
(* (safety/circuit_breaker.py), the rate limiter (safety/rate_limiter.py), *)
(* the retry manager (recovery/retry_manager.py) and the request           *)
(* orchestrator (core/guardian.py).                                        *)
(*                                                                         *)
(* Time is the UTC clock in whole seconds.  The program runs on one        *)
(* asyncio event loop: code between two suspension points (a provider      *)
(* call, a retry sleep, a checkpoint write) runs without interleaving, so  *)
(* one action models one such stretch of a coroutine.                      *)
(***************************************************************************)
EXTENDS Integers, Sequences, FiniteSets, TLC

VARIABLES
    now,     \* datetime.utcnow(), in seconds
    cb,      \* the CircuitBreaker object (guardian.circuit_breaker)
    task,    \* callers of CircuitBreaker.call: position and last outcome
    obs,     \* the last breaker operation that acted, and the state it found
    rl,      \* the RateLimiter object (guardian.rate_limiter)
    lim,     \* the last rate-limiter operation that acted, and what it found
    pm,      \* the PerformanceMonitor's cost tracking
    req,     \* execute_request invocations: position, audit events, outcome
    g,       \* what the requests so far did (observer)
    tb,      \* a TokenBucket, and what its acquire calls handed out
    pf       \* a function under test: its input, and its result once applied

\* ------------------------------------------------------------------ bounds

\* Seconds the clock advances by in one step.
TickLen == 30
\* The clock stops advancing this many seconds into a day.
MaxTime == 150
\* Calls made through a stand-alone breaker.
MaxCalls == 8
\* Days the clock runs past the first one.
MaxDays == 1
\* record_cost stops once a ledger would pass this many cents.
MaxLedger == 120
\* execute_request invocations, while every provider call so far has failed.
MaxRequests == 6
\* execute_request invocations, once a request has gone another way.
MaxMixedRequests == 2
\* The clock stops advancing at this many seconds while requests are served.
MaxGuardianTime == 60
\* Seconds the clock advances by in one step while a bucket is exercised.
BucketTickLen == 5
\* The clock stops advancing at this many seconds while a bucket is exercised.
MaxBucketTime == 60
\* acquire is called for up to this many tokens at once.
MaxTokens == 3
\* Bucket capacities (requests per minute) of the modelled configuration.
global_max_requests_per_minute == 6
user_max_requests_per_minute == 6

\* ------------------------------------------------- program constants

failure_threshold == 5
recovery_timeout == 60
success_threshold == 2

NoTime == 0 - 1

\* Money is counted in cents.  The quota is S4's 1.00 USD.
user_daily_quota_usd == 100
session_budget_usd == 150
\* Request costs: 0.20 USD (S4) and 0.40 USD.
Costs == {20, 40}

SecondsPerDay == 86400
\* datetime.date()
Date(t) == t \div SecondsPerDay

NoUser == "None"
Users == {"u1"}
Sessions == {"s1"}

Callers == {"a", "b"}
\* execute_request invocations in progress at a time.
Slots == {"t1"}

\* ------------------------------------------------------ CircuitBreaker

CircuitState == {"CLOSED", "OPEN", "HALF_OPEN"}

\* CircuitBreaker.__init__ at time t
NewBreaker(t) ==
    [state |-> "CLOSED",
     failure_count |-> 0,
     success_count |-> 0,
     last_failure_time |-> NoTime,
     last_state_change |-> t,
     total_calls |-> 0,
     total_failures |-> 0,
     total_successes |-> 0,
     state_history |-> << <<"CLOSED", t>> >>]

\* Variant: every call of the transition is recorded in the history.
transition_to_always_recorded(b, new_state, t) ==
    LET b1 == [b EXCEPT !.state = new_state,
                        !.last_state_change = t,
                        !.state_history = Append(@, <<new_state, t>>)]
    IN  CASE new_state = "CLOSED" ->
                [b1 EXCEPT !.failure_count = 0, !.success_count = 0]
          [] new_state = "HALF_OPEN" ->
                [b1 EXCEPT !.success_count = 0]
          [] OTHER -> b1

\* CircuitBreaker._transition_to
_transition_to(b, new_state, t) ==
    IF b.state # new_state
    THEN LET b1 == [b EXCEPT !.state = new_state,
                             !.last_state_change = t,
                             !.state_history = Append(@, <<new_state, t>>)]
         IN  CASE new_state = "CLOSED" ->
                     [b1 EXCEPT !.failure_count = 0, !.success_count = 0]
               [] new_state = "HALF_OPEN" ->
                     [b1 EXCEPT !.success_count = 0]
               [] OTHER -> b1
    ELSE b

\* Variant: the elapsed time is measured from the last state change.
should_attempt_reset_since_change(b, t) ==
    IF b.last_failure_time = NoTime
    THEN TRUE
    ELSE t - b.last_state_change >= recovery_timeout

\* CircuitBreaker._should_attempt_reset
_should_attempt_reset(b, t) ==
    IF b.last_failure_time = NoTime
    THEN TRUE
    ELSE t - b.last_failure_time >= recovery_timeout

\* CircuitBreaker._time_until_retry
_time_until_retry(b, t) ==
    IF b.last_failure_time = NoTime
    THEN 0
    ELSE LET remaining == recovery_timeout - (t - b.last_failure_time)
         IN  IF remaining > 0 THEN remaining ELSE 0

\* CircuitBreaker.call, the locked admission block: TRUE when it raises
\* CircuitBreakerOpenError
CallRejects(b, t) ==
    b.state = "OPEN" /\ ~_should_attempt_reset(b, t)

\* Variant: the recovery timeout must be strictly exceeded.
CallAdmit_strict(b, t) ==
    LET b1 == [b EXCEPT !.total_calls = @ + 1]
    IN  IF b1.state = "OPEN" /\ b1.last_failure_time # NoTime
                             /\ t - b1.last_failure_time > recovery_timeout
        THEN _transition_to(b1, "HALF_OPEN", t)
        ELSE b1

\* CircuitBreaker.call, the locked admission block: the breaker it leaves
CallAdmit(b, t) ==
    LET b1 == [b EXCEPT !.total_calls = @ + 1]
    IN  IF b1.state = "OPEN" /\ _should_attempt_reset(b1, t)
        THEN _transition_to(b1, "HALF_OPEN", t)
        ELSE b1

\* Variant: a success leaves failure_count as it is.
on_success_keeps_failure_count(b, t) ==
    LET b1 == [b EXCEPT !.total_successes = @ + 1]
    IN  IF b1.state = "HALF_OPEN"
        THEN LET b2 == [b1 EXCEPT !.success_count = @ + 1]
             IN  IF b2.success_count >= success_threshold
                 THEN [_transition_to(b2, "CLOSED", t) EXCEPT !.success_count = 0]
                 ELSE b2
        ELSE b1

\* CircuitBreaker._on_success
_on_success(b, t) ==
    LET b1 == [b EXCEPT !.failure_count = 0, !.total_successes = @ + 1]
    IN  IF b1.state = "HALF_OPEN"
        THEN LET b2 == [b1 EXCEPT !.success_count = @ + 1]
             IN  IF b2.success_count >= success_threshold
                 THEN [_transition_to(b2, "CLOSED", t) EXCEPT !.success_count = 0]
                 ELSE b2
        ELSE b1

\* Variant: HALF_OPEN counts failures against the threshold like CLOSED.
on_failure_threshold_only(b, t) ==
    LET b1 == [b EXCEPT !.failure_count = @ + 1,
                        !.total_failures = @ + 1,
                        !.last_failure_time = t]
    IN  IF b1.state \in {"HALF_OPEN", "CLOSED"}
           /\ b1.failure_count >= failure_threshold
        THEN [_transition_to(b1, "OPEN", t) EXCEPT !.success_count = 0]
        ELSE b1

\* CircuitBreaker._on_failure
_on_failure(b, t) ==
    LET b1 == [b EXCEPT !.failure_count = @ + 1,
                        !.total_failures = @ + 1,
                        !.last_failure_time = t]
    IN  CASE b1.state = "HALF_OPEN" ->
                [_transition_to(b1, "OPEN", t) EXCEPT !.success_count = 0]
          [] b1.state = "CLOSED" /\ b1.failure_count >= failure_threshold ->
                _transition_to(b1, "OPEN", t)
          [] OTHER -> b1

\* CircuitBreaker.reset
ResetBreaker(b, t) ==
    [_transition_to(b, "CLOSED", t) EXCEPT !.failure_count = 0,
                                           !.success_count = 0,
                                           !.last_failure_time = NoTime]

\* CircuitBreaker.is_available
is_available(b, t) ==
    \/ b.state \in {"CLOSED", "HALF_OPEN"}
    \/ b.state = "OPEN" /\ _should_attempt_reset(b, t)

\* ---------------------------------------------------------- TokenBucket

\* Tokens are kept in sixtieths, so that the refill of capacity/60 tokens
\* per second is exact.
Min(a, b) == IF a <= b THEN a ELSE b

\* TokenBucket.__init__
NewBucket(capacity, t) ==
    [capacity |-> capacity, tokens |-> capacity * 60, last_refill |-> t]

\* TokenBucket._refill that leaves last_refill where it was, so that the
\* same seconds are credited again by the next call.
refill_keeps_last_refill(bk, t) ==
    [bk EXCEPT !.tokens = Min(bk.capacity * 60,
                              bk.tokens + (t - bk.last_refill) * bk.capacity)]

\* TokenBucket._refill
_refill(bk, t) ==
    [bk EXCEPT !.tokens = Min(bk.capacity * 60,
                              bk.tokens + (t - bk.last_refill) * bk.capacity),
               !.last_refill = t]

\* TokenBucket.acquire: whether the tokens are granted
AcquireOk(bk, t, n) == _refill(bk, t).tokens >= n * 60

\* Variant: a refused acquire takes what tokens there are.
acquire_drains(bk, t, n) ==
    LET r == _refill(bk, t)
    IN  IF r.tokens >= n * 60 THEN [r EXCEPT !.tokens = @ - n * 60]
        ELSE [r EXCEPT !.tokens = 0]

\* TokenBucket.acquire: the bucket it leaves
acquire(bk, t, n) ==
    LET r == _refill(bk, t)
    IN  IF r.tokens >= n * 60 THEN [r EXCEPT !.tokens = @ - n * 60] ELSE r

\* ---------------------------------------------------------- RateLimiter

\* dict.get(k, default) and dict[k] = v
Get(d, k, default) == IF k \in DOMAIN d THEN d[k] ELSE default
Put(d, k, v) == [x \in (DOMAIN d) \cup {k} |-> IF x = k THEN v ELSE d[x]]
EmptyDict == [x \in {} |-> 0]

\* RateLimiter.__init__
NewRateLimiter(t) ==
    [global_limiter |-> NewBucket(global_max_requests_per_minute, t),
     user_limiters |-> EmptyDict,
     user_quotas |-> EmptyDict,
     user_quota_reset |-> EmptyDict,
     session_costs |-> EmptyDict]

\* Variant: the ledger is zeroed on first use only, never on a date rollover.
reset_user_quota_first_use_only(r, u, t) ==
    IF u \notin DOMAIN r.user_quota_reset
    THEN [r EXCEPT !.user_quotas = Put(@, u, 0),
                   !.user_quota_reset = Put(@, u, t)]
    ELSE r

\* RateLimiter._reset_user_quota_if_needed
_reset_user_quota_if_needed(r, u, t) ==
    IF u \notin DOMAIN r.user_quota_reset
       \/ Date(t) > Date(r.user_quota_reset[u])
    THEN [r EXCEPT !.user_quotas = Put(@, u, 0),
                   !.user_quota_reset = Put(@, u, t)]
    ELSE r

\* RateLimiter._get_user_limiter
_get_user_limiter(r, u, t) ==
    IF u \notin DOMAIN r.user_limiters
    THEN [r EXCEPT !.user_limiters =
                       Put(@, u, NewBucket(user_max_requests_per_minute, t))]
    ELSE r

\* Variant: the quota check admits a ledger equal to the quota.
check_user_quota_strict(r, u, daily_quota_usd) ==
    Get(r.user_quotas, u, 0) > daily_quota_usd

\* RateLimiter._check_user_quota, after its reset: TRUE when it raises
\* QuotaExceededError
_check_user_quota(r, u, daily_quota_usd) ==
    Get(r.user_quotas, u, 0) >= daily_quota_usd

\* RateLimiter._check_session_budget: TRUE when it raises QuotaExceededError
_check_session_budget(r, sid, budget_usd) ==
    Get(r.session_costs, sid, 0) >= budget_usd

\* Variant: the quota and the budget are checked before the buckets.
check_limits_quota_first(r, ctx, t) ==
    LET r1 == IF ctx.user_id # NoUser
              THEN _reset_user_quota_if_needed(r, ctx.user_id, t)
              ELSE r
        r2 == [r1 EXCEPT !.global_limiter = acquire(@, t, 1)]
        r3 == IF ctx.user_id # NoUser
              THEN _get_user_limiter(r2, ctx.user_id, t)
              ELSE r2
        r4 == IF ctx.user_id # NoUser
              THEN [r3 EXCEPT !.user_limiters[ctx.user_id] = acquire(@, t, 1)]
              ELSE r3
    IN  IF ctx.user_id # NoUser
           /\ _check_user_quota(r1, ctx.user_id, user_daily_quota_usd)
        THEN [rl |-> r1, result |-> "QuotaExceeded:user"]
        ELSE IF ctx.session_id # NoUser
                /\ _check_session_budget(r1, ctx.session_id, session_budget_usd)
        THEN [rl |-> r1, result |-> "QuotaExceeded:session"]
        ELSE IF ~AcquireOk(r1.global_limiter, t, 1)
        THEN [rl |-> r2, result |-> "RateLimitExceeded:global"]
        ELSE IF ctx.user_id # NoUser
                /\ ~AcquireOk(r3.user_limiters[ctx.user_id], t, 1)
        THEN [rl |-> r4, result |-> "RateLimitExceeded:user"]
        ELSE [rl |-> r4, result |-> "ok"]

\* RateLimiter.check_limits: the limiter it leaves and the error it raises
\* ("ok" when it returns)
check_limits(r, ctx, t) ==
    LET r1 == [r EXCEPT !.global_limiter = acquire(@, t, 1)]
    IN  IF ~AcquireOk(r.global_limiter, t, 1)
        THEN [rl |-> r1, result |-> "RateLimitExceeded:global"]
        ELSE
        LET r2 == IF ctx.user_id # NoUser
                  THEN _get_user_limiter(r1, ctx.user_id, t)
                  ELSE r1
            r3 == IF ctx.user_id # NoUser
                  THEN [r2 EXCEPT !.user_limiters[ctx.user_id] = acquire(@, t, 1)]
                  ELSE r2
        IN  IF ctx.user_id # NoUser
               /\ ~AcquireOk(r2.user_limiters[ctx.user_id], t, 1)
            THEN [rl |-> r3, result |-> "RateLimitExceeded:user"]
            ELSE
            LET r4 == IF ctx.user_id # NoUser
                      THEN _reset_user_quota_if_needed(r3, ctx.user_id, t)
                      ELSE r3
            IN  IF ctx.user_id # NoUser
                   /\ _check_user_quota(r4, ctx.user_id, user_daily_quota_usd)
                THEN [rl |-> r4, result |-> "QuotaExceeded:user"]
                ELSE IF ctx.session_id # NoUser
                        /\ _check_session_budget(r4, ctx.session_id,
                                                 session_budget_usd)
                     THEN [rl |-> r4, result |-> "QuotaExceeded:session"]
                     ELSE [rl |-> r4, result |-> "ok"]

\* RateLimiter.record_cost
record_cost(r, ctx, cost_usd, t) ==
    LET r1 == IF ctx.user_id # NoUser
              THEN LET q == _reset_user_quota_if_needed(r, ctx.user_id, t)
                   IN  [q EXCEPT !.user_quotas =
                            Put(@, ctx.user_id,
                                Get(q.user_quotas, ctx.user_id, 0) + cost_usd)]
              ELSE r
    IN  IF ctx.session_id # NoUser
        THEN [r1 EXCEPT !.session_costs =
                 Put(@, ctx.session_id,
                     Get(r1.session_costs, ctx.session_id, 0) + cost_usd)]
        ELSE r1

\* RateLimiter.get_user_quota_status: the limiter it leaves
get_user_quota_status(r, u, t) == _reset_user_quota_if_needed(r, u, t)

\* RequestContext: the fields the limiter reads
Contexts ==
    [user_id : Users \cup {NoUser}, session_id : Sessions \cup {NoUser}]

\* ------------------------------------------------- guardian configuration

\* GuardianConfig: the feature flags and the fallback route at their defaults.
enable_monitoring == TRUE
enable_safety_checks == TRUE
enable_recovery == TRUE
NoProvider == "None"
fallback_provider == "openai"
Providers == {"anthropic", "openai"}
\* RetryConfig.max_attempts
max_attempts == 3
\* RetryManager.retryable_errors
retryable_errors ==
    {"ConnectionError", "TimeoutError",
     "LLMProviderTimeoutError", "LLMProviderRateLimitError"}
\* What a client's generate raises.
ProviderErrors == {"LLMProviderTimeoutError", "LLMProviderAPIError"}

\* Prompts, by what validate_input looks for in them.
Prompts == [injection : BOOLEAN, invalid : BOOLEAN]
\* RequestContext.max_cost_usd in cents.  0 is a limit of 0.0, which the code
\* treats as it treats None, both being falsy.
MaxCosts == {0, 30}
\* RequestContext: the fields the orchestrator's components read.
GuardianContexts ==
    [user_id : Users, session_id : Sessions, max_cost_usd : MaxCosts]

\* An LLMResponse as a client returns it: cost in cents, the detectors'
\* readings of its text in hundredths, and the monitoring fields at their
\* defaults.
MkResponse(cost, hallucination, risk, off_task, length) ==
    [cost_usd |-> cost,
     hallucination_score |-> hallucination,
     safety_risk |-> risk,
     off_task |-> off_task,
     response_length |-> length,
     quality_score |-> 0,
     quality_level |-> "acceptable",
     contains_harmful_content |-> FALSE,
     is_hallucination |-> FALSE,
     is_off_task |-> FALSE]
Responses ==
    { MkResponse(20, 0, 0, FALSE, 100),
      MkResponse(40, 0, 0, FALSE, 100),
      MkResponse(20, 80, 0, FALSE, 100),
      MkResponse(20, 0, 80, FALSE, 100),
      MkResponse(20, 0, 80, FALSE, 30),
      MkResponse(20, 80, 100, FALSE, 100) }
\* No response yet.
NoResponse == MkResponse(0, 0, 0, FALSE, 0)

\* ------------------------------------------------- validators and monitors

\* InputValidator.validate_input: the error it raises ("ok" when it returns)
validate_input(prompt) ==
    IF prompt.injection THEN "PromptInjectionError"
    ELSE IF prompt.invalid THEN "ValidationError"
    ELSE "ok"

\* QualityMonitor._calculate_quality_score, in thousandths
_calculate_quality_score(hallucination_score, safety_risk, is_off_task, response_length) ==
    LET b1 == 1000 - hallucination_score * 4 - safety_risk * 5
        b2 == IF is_off_task THEN b1 \div 2 ELSE b1
        b3 == IF response_length < 50 THEN (b2 * 8) \div 10 ELSE b2
    IN  IF b3 < 0 THEN 0 ELSE b3

\* Variant: a score of exactly 0.6 is categorized as poor.
categorize_quality_above(quality_score) ==
    IF quality_score >= 900 THEN "excellent"
    ELSE IF quality_score >= 750 THEN "good"
    ELSE IF quality_score > 600 THEN "acceptable"
    ELSE IF quality_score >= 300 THEN "poor"
    ELSE "unsafe"

\* QualityMonitor._categorize_quality
_categorize_quality(quality_score) ==
    IF quality_score >= 900 THEN "excellent"
    ELSE IF quality_score >= 750 THEN "good"
    ELSE IF quality_score >= 600 THEN "acceptable"
    ELSE IF quality_score >= 300 THEN "poor"
    ELSE "unsafe"

\* Variant: a low score alone does not fail validation.
should_pass_low_quality(quality_score, has_violations, is_hallucination) ==
    /\ ~has_violations
    /\ ~is_hallucination

\* Variant: a likely hallucination does not fail validation.
should_pass_hallucination(quality_score, has_violations, is_hallucination) ==
    /\ ~has_violations
    /\ ~(quality_score < 500)

\* QualityMonitor._should_pass_validation
_should_pass_validation(quality_score, has_violations, is_hallucination) ==
    /\ ~has_violations
    /\ ~is_hallucination
    /\ ~(quality_score < 500)

\* QualityMonitor._recommend_action
_recommend_action(quality_score, pass_validation, has_violations) ==
    IF has_violations THEN "reject"
    ELSE IF ~pass_validation
    THEN IF quality_score < 300 THEN "fallback" ELSE "review"
    ELSE IF quality_score >= 750 THEN "accept"
    ELSE "review"

\* QualityMonitor.assess_quality: the annotated response, the assessment
\* (safety_violations: whether the list is non-empty) and whether
\* QualityCheckFailedError is raised
assess_quality(resp) ==
    LET is_hall == resp.hallucination_score > 70
        unsafe == resp.safety_risk > 50
        score == _calculate_quality_score(resp.hallucination_score,
                                          resp.safety_risk, resp.off_task,
                                          resp.response_length)
        pass == _should_pass_validation(score, unsafe, is_hall)
    IN  [response |-> [resp EXCEPT !.is_hallucination = is_hall,
                                   !.contains_harmful_content = unsafe,
                                   !.is_off_task = resp.off_task,
                                   !.quality_score = score,
                                   !.quality_level =
                                       _categorize_quality(score)],
         assessment |-> [safety_violations |-> unsafe,
                         pass_validation |-> pass,
                         recommended_action |->
                             _recommend_action(score, pass, unsafe)],
         raises |-> ~pass /\ score < 300]

\* PerformanceMonitor.__init__: the cost tracking
NewPerformanceMonitor ==
    [session_costs |-> EmptyDict,
     user_costs |-> EmptyDict,
     daily_cost_reset |-> EmptyDict]

\* PerformanceMonitor._reset_daily_costs_if_needed
_reset_daily_costs_if_needed(p, u, t) ==
    IF u \notin DOMAIN p.daily_cost_reset
       \/ Date(t) > Date(p.daily_cost_reset[u])
    THEN [p EXCEPT !.user_costs = Put(@, u, 0),
                   !.daily_cost_reset = Put(@, u, t)]
    ELSE p

\* PerformanceMonitor._check_budget_limits: TRUE when it raises
_check_budget_limits(cost_usd, ctx) ==
    ctx.max_cost_usd # 0 /\ cost_usd > ctx.max_cost_usd

\* PerformanceMonitor.record_metrics: the monitor it leaves and whether
\* BudgetExceededError is raised
record_metrics(p, resp, ctx, t) ==
    LET p1 == IF ctx.session_id # NoUser
              THEN [p EXCEPT !.session_costs =
                       Put(@, ctx.session_id,
                           Get(p.session_costs, ctx.session_id, 0) + resp.cost_usd)]
              ELSE p
        p2 == IF ctx.user_id # NoUser
              THEN LET q == _reset_daily_costs_if_needed(p1, ctx.user_id, t)
                   IN  [q EXCEPT !.user_costs =
                            Put(@, ctx.user_id,
                                Get(q.user_costs, ctx.user_id, 0) + resp.cost_usd)]
              ELSE p1
    IN  [pm |-> p2, raises |-> _check_budget_limits(resp.cost_usd, ctx)]

\* OutputValidator.validate_output
validate_output(resp) ==
    LET empty == resp.response_length = 0
        s1 == IF resp.contains_harmful_content THEN "critical" ELSE "low"
        s2 == IF resp.quality_score < 500 THEN "high" ELSE s1
        s3 == IF resp.is_hallucination THEN "high" ELSE s2
        s4 == IF empty THEN "high" ELSE s3
    IN  [is_valid |-> ~( resp.contains_harmful_content
                         \/ resp.quality_score < 500
                         \/ resp.is_hallucination
                         \/ empty ),
         severity |-> s4]

\* ------------------------------------------------------------ LLMGuardian

\* A request slot before execute_request is called in it.
IdleRequest ==
    [pc |-> "idle", ctx |-> [user_id |-> NoUser, session_id |-> NoUser,
                             max_cost_usd |-> 0],
     provider |-> NoProvider, attempt |-> 0,
     fb_error |-> "none", fb_stage |-> 0,
     primary_calls |-> 0, fallback_calls |-> 0, fallbacks |-> 0,
     trace |-> << >>, checkpoint |-> "none",
     audit |-> << >>, audit_context |-> << >>,
     outcome |-> "none", cause |-> "none",
     response |-> NoResponse, response_provider |-> NoProvider,
     delivered |-> [contains_harmful_content |-> FALSE, cost_usd |-> 0],
     assessed |-> FALSE, rejected |-> FALSE, in_timeout |-> FALSE,
     breaker_failures |-> 0,
     charged |-> [user |-> 0, session |-> 0, monitor |-> 0]]

\* AuditLogger._log_event, for the events of one request: log_request and
\* log_response write their event type, log_error the error's type name and,
\* beside it, the context it was given, named by its first key.
NoContext == "none"
log_event(r, event, context) ==
    [r EXCEPT !.audit = Append(@, event),
              !.audit_context = Append(@, context)]
log_request(r) == log_event(r, "request", NoContext)
log_response(r) == log_event(r, "response", NoContext)
log_error(r, error, context) == log_event(r, error, context)

\* The request has entered a step of execute_request (observer: the steps in
\* the order they were entered; "generate" is a call of a provider client,
\* "generate_returned" its response).
did(r, step) == [r EXCEPT !.trace = Append(@, step)]

\* The pipeline below threads m = [cb, rl, pm, r]: the breaker, the limiter,
\* the performance monitor and the request.

\* execute_request's outer handler: log the error, re-raise.  The local
\* variable response goes with the coroutine's frame.
Raise(m, error) ==
    [m EXCEPT !.r = [log_error(@, error, NoContext) EXCEPT !.pc = "done",
                                                           !.outcome = error,
                                                           !.response = NoResponse]]

\* execute_request returns the response: the caller has it, and the model
\* keeps of it the provider that generated it, its harmful-content flag and
\* its cost (delivered).
Return(m) ==
    [m EXCEPT !.r.pc = "done", !.r.outcome = "returned",
              !.r.delivered =
                  [contains_harmful_content |->
                       m.r.response.contains_harmful_content,
                   cost_usd |-> m.r.response.cost_usd],
              !.r.response = NoResponse]

\* asyncio.CancelledError is thrown into the coroutine at the await of a
\* provider call (or of the retry sleep before it).  It is a BaseException:
\* no "except Exception" on its way out catches it, neither RetryManager's,
\* CircuitBreaker.call's, _handle_failure_with_fallback's nor the two of
\* execute_request.
Cancelled(m) ==
    [m EXCEPT !.r = [@ EXCEPT !.pc = "done", !.outcome = "CancelledError",
                              !.response = NoResponse]]

\* RequestContext.model_dump(): the fields with the types of their values.
\* model_dump() is pydantic's python mode, which hands out the datetime of
\* "timestamp" as it is (RequestContext declares no serializer).
model_dump(ctx) ==
    [request_id |-> "str", timestamp |-> "datetime",
     user_id |-> IF ctx.user_id = NoUser THEN "NoneType" ELSE "str",
     session_id |-> IF ctx.session_id = NoUser THEN "NoneType" ELSE "str",
     prompt |-> "str", max_tokens |-> "int", temperature |-> "float",
     allowed_topics |-> "NoneType", forbidden_patterns |-> "NoneType",
     max_cost_usd |-> "float",
     metadata |-> "dict"]

\* json.dumps(snapshot) returns; otherwise it raises TypeError.  JsonTypes
\* are the Python types it encodes without a "default" hook.
json_dumps_returns(snapshot) ==
    LET JsonTypes == {"str", "int", "float", "bool", "NoneType", "list",
                      "dict"}
    IN  /\ {snapshot.snapshot_id, snapshot.checkpoint_data,
            snapshot.timestamp} \subseteq JsonTypes
        /\ \A field \in DOMAIN snapshot.request_context :
               snapshot.request_context[field] \in JsonTypes

\* StateManager.save_checkpoint: the file {request_id}.json is opened for
\* writing, which creates or empties it, before json.dumps encodes the
\* snapshot; whatever is raised leaves as CheckpointSaveError.  The file
\* holds the stage once written, and nothing ("empty") until then.
save_checkpoint(m, stage) ==
    LET snapshot == [snapshot_id |-> "str",
                     request_context |-> model_dump(m.r.ctx),
                     checkpoint_data |-> "dict",
                     timestamp |-> "str"]
    IN  IF json_dumps_returns(snapshot)
        THEN [raises |-> FALSE, m |-> [m EXCEPT !.r.checkpoint = stage]]
        ELSE [raises |-> TRUE,
              m |-> Raise([m EXCEPT !.r.checkpoint = "empty"],
                          "CheckpointSaveError")]

\* Steps 9 and 10: log the response, then the completed checkpoint.  With
\* recovery on, a request is at step 10 only if step 4 returned.
Step9(m) ==
    LET m1 == [m EXCEPT !.r = log_response(did(@, "audit_response"))]
    IN  IF m.enable_recovery
        THEN [m1 EXCEPT !.r = [did(@, "checkpoint_completed")
                               EXCEPT !.pc = "ckpt_post"]]
        ELSE Return(m1)

\* _handle_failure_with_fallback up to the fallback client's first generate.
\* stage is the step of execute_request that called it.
_handle_failure_with_fallback(m, error, stage) ==
    IF fallback_provider = NoProvider THEN Raise(m, error)
    ELSE [m EXCEPT !.r = [did(@, "generate") EXCEPT
                                   !.pc = "fallback", !.attempt = 0,
                                   !.fb_error = error, !.fb_stage = stage,
                                   !.fallbacks = @ + 1,
                                   !.fallback_calls = @ + 1]]

\* Variant: the cost is recorded before the response is assessed.
Steps6to8_cost_first(m, resp, t) ==
    LET a == assess_quality(resp)
        m1 == [m EXCEPT !.rl = record_cost(m.rl, m.r.ctx, resp.cost_usd, t)]
    IN  IF a.raises THEN Raise(m1, "QualityCheckFailedError")
        ELSE Step9([m1 EXCEPT !.r.assessed = TRUE])

\* Variant: record_metrics and record_cost run before assess_quality.
Steps6to8_metrics_first(m, resp, t) ==
    LET a == assess_quality(resp)
        pmr == record_metrics(m.pm, resp, m.r.ctx, t)
        m1 == [m EXCEPT !.r = did(@, "record_metrics")]
        m2 == [m1 EXCEPT !.pm = pmr.pm,
                         !.rl = record_cost(m.rl, m.r.ctx, resp.cost_usd, t),
                         !.r = [did(did(@, "record_cost"), "assess_quality")
                                EXCEPT !.assessed = TRUE,
                                       !.response = a.response]]
        v == validate_output(a.response)
        m2v == [m2 EXCEPT !.r = did(@, "validate_output")]
        m3 == [m2v EXCEPT !.r = log_error(@, "ValidationError",
                                          "validation_result")]
    IN  IF pmr.raises
        THEN Raise([m1 EXCEPT !.pm = pmr.pm], "BudgetExceededError")
        ELSE IF a.raises THEN Raise(m2, "QualityCheckFailedError")
        ELSE IF ~v.is_valid
        THEN IF v.severity = "critical"
             THEN _handle_failure_with_fallback(m3, "ValidationError", 8)
             ELSE Step9(m3)
        ELSE Step9(m2v)

\* Steps 6 to 8 on a response: assess_quality, record_metrics and
\* record_cost, validate_output.
Steps6to8(m, resp, t) ==
    LET a == assess_quality(resp)
        resp1 == IF enable_monitoring THEN a.response ELSE resp
        m0 == IF enable_monitoring
              THEN [m EXCEPT !.r = did(@, "assess_quality")]
              ELSE m
        m1 == [m0 EXCEPT !.r = [(IF enable_monitoring
                                 THEN did(@, "record_metrics") ELSE @)
                                EXCEPT !.assessed = TRUE,
                                       !.response = resp1]]
        pmr == record_metrics(m.pm, resp1, m.r.ctx, t)
        m2 == IF enable_monitoring
              THEN [m1 EXCEPT !.pm = pmr.pm,
                              !.rl = record_cost(m.rl, m.r.ctx, resp1.cost_usd, t),
                              !.r = did(@, "record_cost")]
              ELSE m1
        v == validate_output(resp1)
        m2v == IF enable_safety_checks
               THEN [m2 EXCEPT !.r = did(@, "validate_output")]
               ELSE m2
        m3 == [m2v EXCEPT !.r = log_error(@, "ValidationError",
                                          "validation_result")]
    IN  IF enable_monitoring /\ a.raises
        THEN Raise(m0, "QualityCheckFailedError")
        ELSE IF enable_monitoring /\ pmr.raises
        THEN Raise([m1 EXCEPT !.pm = pmr.pm], "BudgetExceededError")
        ELSE IF enable_safety_checks /\ ~v.is_valid
        THEN IF v.severity = "critical"
             THEN IF fallback_provider # NoProvider
                  THEN _handle_failure_with_fallback(m3, "ValidationError", 8)
                  ELSE Raise(m3, "ValidationError")
             ELSE Step9(m3)
        ELSE Step9(m2v)

\* Step 5's handler: log the error, then the fallback route or re-raise.
Step5Failed(m, error) ==
    LET m1 == [m EXCEPT !.r = log_error(@, error, "provider")]
    IN  IF fallback_provider # NoProvider /\ m.r.provider # fallback_provider
        THEN _handle_failure_with_fallback(m1, error, 5)
        ELSE Raise(m1, error)

\* Step 5 up to the primary client's first generate: the breaker's admission.
Step5(m, t) ==
    LET m1 == [m EXCEPT !.cb = CallAdmit(m.cb, t),
                        !.r = did(@, "breaker_call")]
    IN  IF CallRejects(m.cb, t)
        THEN Step5Failed([m1 EXCEPT !.r.rejected = TRUE],
                         "CircuitBreakerOpenError")
        ELSE [m1 EXCEPT !.r = [did(@, "generate") EXCEPT
                                        !.pc = "primary", !.attempt = 0,
                                        !.primary_calls = @ + 1]]

\* The error check_limits raises, by its type name.
LimitError(result) ==
    IF result \in {"RateLimitExceeded:global", "RateLimitExceeded:user"}
    THEN "RateLimitExceededError"
    ELSE "QuotaExceededError"

\* Variant: admission (check_limits) runs before input validation.
Steps1to4_admission_first(m, ctx, prompt, provider, t) ==
    LET r0 == log_request([IdleRequest EXCEPT !.ctx = ctx,
                                              !.provider = provider])
        v == validate_input(prompt)
        lr == check_limits(m.rl, ctx, t)
        m1 == [m EXCEPT !.r = r0, !.rl = lr.rl]
    IN  IF lr.result # "ok" THEN Raise(m1, LimitError(lr.result))
        ELSE IF enable_safety_checks /\ v # "ok" THEN Raise(m1, v)
        ELSE IF m.enable_recovery THEN [m1 EXCEPT !.r.pc = "ckpt_pre"]
        ELSE Step5(m1, t)

\* Steps 1 to 4 up to the pre-execution checkpoint's write.
Steps1to4(m, ctx, prompt, provider, t) ==
    LET r0 == log_request(did([IdleRequest EXCEPT !.ctx = ctx,
                                                  !.provider = provider],
                              "audit_request"))
        m0 == [m EXCEPT !.r = IF enable_safety_checks
                              THEN did(r0, "validate_input") ELSE r0]
        v == validate_input(prompt)
        lr == check_limits(m.rl, ctx, t)
        m1 == [m0 EXCEPT !.rl = lr.rl, !.r = did(@, "check_limits")]
    IN  IF enable_safety_checks /\ v # "ok" THEN Raise(m0, v)
        ELSE IF lr.result # "ok" THEN Raise(m1, LimitError(lr.result))
        ELSE IF m.enable_recovery
        THEN [m1 EXCEPT !.r = [did(@, "checkpoint_pre")
                               EXCEPT !.pc = "ckpt_pre"]]
        ELSE Step5(m1, t)

\* RetryManager.execute_with_retry: the loop has returned resp.
LoopReturns(m, resp, t) ==
    LET m1 == [m EXCEPT !.r = [did(@, "generate_returned") EXCEPT
                                 !.response = resp,
                                 !.response_provider =
                                     IF m.r.pc = "primary" THEN m.r.provider
                                     ELSE fallback_provider]]
    IN  IF m.r.pc = "primary"
        THEN Steps6to8([m1 EXCEPT !.cb = _on_success(@, t)], resp, t)
        ELSE IF m.r.fb_stage = 5 THEN Steps6to8(m1, resp, t)
        ELSE Step9(m1)

\* Variant: a failed fallback surfaces the fallback's own error.
LoopRaises_fallback_error(m, error, t) ==
    IF m.r.pc = "primary"
    THEN Step5Failed([m EXCEPT !.cb = _on_failure(@, t)], error)
    ELSE Raise([m EXCEPT !.r = log_error(@, error, "fallback_attempted")],
               error)

\* RetryManager.execute_with_retry: the loop has raised error.  In the
\* fallback's loop this is _handle_failure_with_fallback's handler: log the
\* fallback's error, raise the original one from it.
LoopRaises(m, error, t) ==
    IF m.r.pc = "primary"
    THEN Step5Failed([m EXCEPT !.cb = _on_failure(@, t)], error)
    ELSE Raise([m EXCEPT !.r = [log_error(@, error, "fallback_attempted")
                                EXCEPT !.cause = error]],
               m.r.fb_error)

\* Variant: every failed attempt is recorded by the breaker.
execute_with_retry_failure_per_attempt(m, error, t) ==
    LET m1 == IF m.r.pc = "primary" THEN [m EXCEPT !.cb = _on_failure(@, t)]
              ELSE m
    IN  IF error \in retryable_errors
        THEN IF m.r.attempt < max_attempts - 1
             THEN IF m.r.pc = "primary"
                  THEN [m1 EXCEPT !.r.attempt = @ + 1, !.r.primary_calls = @ + 1]
                  ELSE [m1 EXCEPT !.r.attempt = @ + 1, !.r.fallback_calls = @ + 1]
             ELSE LoopRaises(m1, "RetryExhaustedError", t)
        ELSE LoopRaises(m, error, t)

\* RetryManager.execute_with_retry: the generate in flight has raised error.
execute_with_retry(m, error, t) ==
    IF error \in retryable_errors
    THEN IF m.r.attempt < max_attempts - 1
         THEN IF m.r.pc = "primary"
              THEN [m EXCEPT !.r = [did(@, "generate") EXCEPT
                                      !.attempt = @ + 1,
                                      !.primary_calls = @ + 1]]
              ELSE [m EXCEPT !.r = [did(@, "generate") EXCEPT
                                      !.attempt = @ + 1,
                                      !.fallback_calls = @ + 1]]
         ELSE LoopRaises(m, "RetryExhaustedError", t)
    ELSE LoopRaises(m, error, t)

\* ------------------------------------------------------------------ state

vars == <<now, cb, task, obs, rl, lim, pm, req, g, tb, pf>>
breakerVars == <<cb, task, obs>>
limiterVars == <<rl, lim>>
guardianVars == <<pm, req, g>>

IdleTask == [pc |-> "idle", last |-> "none", admitted |-> "none"]

\* The components as constructed, around the given rate limiter and whatever
\* function is under test.
Constructed(limiter, recovery) ==
    /\ now = 0
    /\ cb = NewBreaker(0)
    /\ task = [c \in Callers |-> IdleTask]
    /\ obs = [op |-> "init", who |-> "none", pre |-> "CLOSED", probes |-> 0]
    /\ rl = limiter
    /\ lim = [op |-> "init", user_id |-> NoUser, cost |-> 0, result |-> "ok",
              prev_record_day |-> NoTime,
              last_record_day |-> [u \in Users |-> NoTime],
              day_records |-> [u \in Users |-> 0],
              day_total |-> [u \in Users |-> 0]]
    /\ pm = NewPerformanceMonitor
    /\ req = [s \in Slots |-> IdleRequest]
    /\ g = [issued |-> 0, s2 |-> TRUE, failed |-> 0, t_fail |-> NoTime,
            failing |-> {}, enable_recovery |-> recovery]
    /\ tb = [bucket |-> NewBucket(global_max_requests_per_minute, 0),
             handed_out |-> 0, who |-> "none", asked |-> 0,
             result |-> FALSE]

NoFunction == [stage |-> "none"]

Init == Constructed(NewRateLimiter(0), enable_recovery) /\ pf = NoFunction

\* Successes recorded since the breaker last entered HALF_OPEN (observer).
ProbesAfter(b0, b1, n) ==
    IF b1.state = "HALF_OPEN"
    THEN IF b0.state = "HALF_OPEN" THEN n ELSE 0
    ELSE n

\* The clock advances.
Tick ==
    /\ (now % 86400) + TickLen <= MaxTime
    /\ now' = now + TickLen
    /\ UNCHANGED <<cb, task, obs, rl, lim, guardianVars, tb, pf>>

\* A caller enters CircuitBreaker.call: the admission block either raises
\* CircuitBreakerOpenError or lets the wrapped function start.
BreakerCall(c) ==
    /\ task[c].pc = "idle"
    /\ cb.total_calls < MaxCalls
    /\ cb' = CallAdmit(cb, now)
    /\ IF CallRejects(cb, now)
       THEN task' = [task EXCEPT ![c] = [pc |-> "idle", last |-> "rejected",
                                         admitted |-> "none"]]
       ELSE task' = [task EXCEPT ![c] = [pc |-> "running", last |-> "started",
                                         admitted |-> cb'.state]]
    /\ obs' = [op |-> "call", who |-> c, pre |-> cb.state,
               probes |-> ProbesAfter(cb, cb', obs.probes)]
    /\ UNCHANGED <<now, rl, lim, guardianVars, tb, pf>>

\* The wrapped function of caller c returns: _on_success under the lock.
WrappedReturns(c) ==
    /\ task[c].pc = "running"
    /\ cb' = _on_success(cb, now)
    /\ task' = [task EXCEPT ![c].pc = "idle", ![c].last = "ok"]
    /\ obs' = [op |-> "success", who |-> c, pre |-> cb.state,
               probes |-> IF cb.state = "HALF_OPEN" THEN obs.probes + 1
                          ELSE obs.probes]
    /\ UNCHANGED <<now, rl, lim, guardianVars, tb, pf>>

\* The wrapped function of caller c raises: _on_failure under the lock.
WrappedRaises(c) ==
    /\ task[c].pc = "running"
    /\ cb' = _on_failure(cb, now)
    /\ task' = [task EXCEPT ![c].pc = "idle", ![c].last = "failed"]
    /\ obs' = [op |-> "failure", who |-> c, pre |-> cb.state, probes |-> obs.probes]
    /\ UNCHANGED <<now, rl, lim, guardianVars, tb, pf>>

\* The operator calls CircuitBreaker.reset.
Reset ==
    /\ cb.state # "CLOSED" \/ cb.failure_count > 0
    /\ cb' = ResetBreaker(cb, now)
    /\ obs' = [op |-> "reset", who |-> "none", pre |-> cb.state, probes |-> obs.probes]
    /\ UNCHANGED <<now, task, rl, lim, guardianVars, tb, pf>>

BreakerNext ==
    \/ Tick
    \/ \E c \in Callers : BreakerCall(c)
    \/ \E c \in Callers : WrappedReturns(c)
    \/ \E c \in Callers : WrappedRaises(c)
    \/ Reset

SpecBreaker == Init /\ [][BreakerNext]_vars

\* ------------------------------------------- circuit breaker and its lock

\* Variant: call() keeps the lock while the wrapped function executes.
lock_kept_for_call(c, pc) == IF pc = "admission" THEN c ELSE "none"

\* The holder of CircuitBreaker._lock when caller c leaves an "async with
\* self._lock" block
lock_released(c, pc) == "none"

InitLock ==
    /\ Constructed(NewRateLimiter(0), enable_recovery)
    /\ pf = [stage |-> "lock", holder |-> "none"]

\* Caller c enters "async with self._lock": in call(), or in _on_success or
\* _on_failure once its wrapped function has ended.
AcquireLock(c) ==
    /\ pf.holder = "none"
    /\ task[c].pc \in {"idle", "returned", "raised"}
    /\ task[c].pc = "idle" => cb.total_calls < MaxCalls
    /\ pf' = [pf EXCEPT !.holder = c]
    /\ task' = [task EXCEPT ![c].pc = CASE task[c].pc = "idle" -> "admission"
                                        [] task[c].pc = "returned" -> "on_success"
                                        [] task[c].pc = "raised" -> "on_failure"]
    /\ UNCHANGED <<now, cb, obs, rl, lim, guardianVars, tb>>

\* The block under the lock: the admission block of call(), which raises
\* CircuitBreakerOpenError or goes on to the wrapped function, or the body of
\* _on_success or _on_failure; leaving it releases the lock.
LockedBlock(c) ==
    /\ pf.holder = c
    /\ task[c].pc \in {"admission", "on_success", "on_failure"}
    /\ cb' = CASE task[c].pc = "admission" -> CallAdmit(cb, now)
                [] task[c].pc = "on_success" -> _on_success(cb, now)
                [] task[c].pc = "on_failure" -> _on_failure(cb, now)
    /\ task' = [task EXCEPT ![c] =
                   CASE task[c].pc = "admission" /\ CallRejects(cb, now) ->
                            [pc |-> "idle", last |-> "rejected",
                             admitted |-> "none"]
                     [] task[c].pc = "admission" /\ ~CallRejects(cb, now) ->
                            [pc |-> "running", last |-> "started",
                             admitted |-> cb'.state]
                     [] task[c].pc = "on_success" ->
                            [task[c] EXCEPT !.pc = "idle", !.last = "ok"]
                     [] task[c].pc = "on_failure" ->
                            [task[c] EXCEPT !.pc = "idle", !.last = "failed"]]
    /\ pf' = [pf EXCEPT !.holder = lock_released(c, task[c].pc)]
    /\ UNCHANGED <<now, obs, rl, lim, guardianVars, tb>>

\* The wrapped function of caller c returns or raises.
FuncEnds(c, ok) ==
    /\ task[c].pc = "running"
    /\ task' = [task EXCEPT ![c].pc = IF ok THEN "returned" ELSE "raised"]
    /\ UNCHANGED <<now, cb, obs, rl, lim, guardianVars, tb, pf>>

LockNext ==
    \/ \E c \in Callers : AcquireLock(c)
    \/ \E c \in Callers : LockedBlock(c)
    \/ \E c \in Callers, ok \in BOOLEAN : FuncEnds(c, ok)

SpecLock == InitLock /\ [][LockNext]_vars

\* ------------------------------------------------ rate limiter, stand-alone

\* The number and the sum of the costs recorded for user u on the UTC day of
\* t (observer: kept beside the limiter, from the record_cost calls made).
DayRecords(l, u, t) ==
    IF l.last_record_day[u] = Date(t) THEN l.day_records[u] ELSE 0
DaySpent(l, u, t) ==
    IF l.last_record_day[u] = Date(t) THEN l.day_total[u] ELSE 0

\* The clock passes midnight UTC.
NextDay ==
    /\ Date(now) < MaxDays
    /\ now' = (Date(now) + 1) * SecondsPerDay
    /\ UNCHANGED <<breakerVars, limiterVars, guardianVars, tb, pf>>

\* One admission: RateLimiter.check_limits(ctx).
CheckLimits(ctx) ==
    /\ rl' = check_limits(rl, ctx, now).rl
    /\ lim' = [lim EXCEPT !.op = "check_limits", !.user_id = ctx.user_id,
                          !.cost = 0, !.prev_record_day = NoTime,
                          !.result = check_limits(rl, ctx, now).result]
    /\ UNCHANGED <<now, breakerVars, guardianVars, tb, pf>>

\* RateLimiter.record_cost(ctx, cost).
RecordCost(ctx, cost) ==
    /\ ctx.user_id # NoUser
          => DaySpent(lim, ctx.user_id, now) + cost <= MaxLedger
    /\ ctx.session_id # NoUser
          => Get(rl.session_costs, ctx.session_id, 0) + cost <= MaxLedger
    /\ rl' = record_cost(rl, ctx, cost, now)
    /\ lim' = [op |-> "record_cost", user_id |-> ctx.user_id, cost |-> cost,
               result |-> "ok",
               prev_record_day |-> IF ctx.user_id # NoUser
                                   THEN lim.last_record_day[ctx.user_id]
                                   ELSE NoTime,
               day_total |->
                   IF ctx.user_id # NoUser
                   THEN [lim.day_total EXCEPT ![ctx.user_id] =
                            DaySpent(lim, ctx.user_id, now) + cost]
                   ELSE lim.day_total,
               last_record_day |->
                   IF ctx.user_id # NoUser
                   THEN [lim.last_record_day EXCEPT ![ctx.user_id] = Date(now)]
                   ELSE lim.last_record_day,
               day_records |->
                   IF ctx.user_id # NoUser
                   THEN [lim.day_records EXCEPT ![ctx.user_id] =
                            DayRecords(lim, ctx.user_id, now) + 1]
                   ELSE lim.day_records]
    /\ UNCHANGED <<now, breakerVars, guardianVars, tb, pf>>

\* RateLimiter.get_user_quota_status(u).
QuotaStatus(u) ==
    /\ rl' = get_user_quota_status(rl, u, now)
    /\ lim' = [lim EXCEPT !.op = "get_user_quota_status",
                          !.user_id = u, !.cost = 0, !.result = "ok",
                          !.prev_record_day = NoTime]
    /\ UNCHANGED <<now, breakerVars, guardianVars, tb, pf>>

LimiterNext ==
    \/ NextDay
    \/ \E ctx \in Contexts : CheckLimits(ctx)
    \/ \E ctx \in Contexts, cost \in Costs : RecordCost(ctx, cost)
    \/ \E u \in Users : QuotaStatus(u)

SpecLimiter == Init /\ [][LimiterNext]_vars


\* ------------------------------------------------ token bucket, stand-alone

\* Time passes between two operations on the bucket.
BucketTick ==
    /\ now + BucketTickLen <= MaxBucketTime
    /\ now' = now + BucketTickLen
    /\ UNCHANGED <<breakerVars, limiterVars, guardianVars, tb, pf>>

\* Caller c calls TokenBucket.acquire(n): the call runs under the bucket's
\* lock, so it is one step.  handed_out counts the tokens of the calls that
\* returned True.
Acquire(c, n) ==
    /\ tb' = [bucket |-> acquire(tb.bucket, now, n),
              handed_out |-> IF AcquireOk(tb.bucket, now, n)
                             THEN tb.handed_out + n ELSE tb.handed_out,
              who |-> c, asked |-> n,
              result |-> AcquireOk(tb.bucket, now, n)]
    /\ UNCHANGED <<now, breakerVars, limiterVars, guardianVars, pf>>

\* Rate limiters in service, configured with a per-user limit below the
\* global one: at time 0 the global bucket and user u1's bucket have each just
\* handed out a token, and the user's ledger of the day and the session's
\* ledger stand at zero or at their limits.
low_user_max_requests_per_minute == 3
LimitersInService ==
    { [global_limiter |-> acquire(NewRateLimiter(0).global_limiter, 0, 1),
       user_limiters |->
           Put(EmptyDict, "u1",
               acquire(NewBucket(low_user_max_requests_per_minute, 0), 0, 1)),
       user_quotas |-> Put(EmptyDict, "u1", spent),
       user_quota_reset |-> Put(EmptyDict, "u1", 0),
       session_costs |-> costs] :
        spent \in {0, user_daily_quota_usd},
        costs \in {EmptyDict, Put(EmptyDict, "s1", session_budget_usd)} }

InitAdmission ==
    \E limiter \in LimitersInService :
        Constructed(limiter, enable_recovery) /\ pf = NoFunction

AdmissionNext ==
    \/ Tick
    \/ \E ctx \in Contexts : CheckLimits(ctx)

SpecAdmission == InitAdmission /\ [][AdmissionNext]_vars

BucketNext ==
    \/ BucketTick
    \/ \E c \in Callers, n \in 1..MaxTokens : Acquire(c, n)

SpecBucket == Init /\ [][BucketNext]_vars

\* ------------------------------ rate limiter under concurrent requests

\* Requests of one user and one session, one per caller at a time, within
\* one UTC day: each is admitted by check_limits (step 3), awaits its
\* provider, and then either has its cost recorded (step 7) or fails.
InitLedgers ==
    /\ Constructed(NewRateLimiter(0), enable_recovery)
    /\ pf = [stage |-> "ledgers", pc |-> [c \in Callers |-> "idle"]]

\* The request context of every caller.
SharedContext == [user_id |-> "u1", session_id |-> "s1"]

\* Caller c's request reaches check_limits, which admits it or raises.  No
\* await inside check_limits suspends (its locks are free), so it is one step.
Admit(c) ==
    /\ pf.pc[c] = "idle"
    /\ rl' = check_limits(rl, SharedContext, now).rl
    /\ pf' = [pf EXCEPT !.pc[c] =
                 IF check_limits(rl, SharedContext, now).result = "ok"
                 THEN "admitted" ELSE "idle"]
    /\ UNCHANGED <<now, breakerVars, lim, guardianVars, tb>>

\* Caller c's provider call has returned a response of the given cost, and
\* record_cost books it.
Charge(c, cost) ==
    /\ pf.pc[c] = "admitted"
    /\ rl' = record_cost(rl, SharedContext, cost, now)
    /\ pf' = [pf EXCEPT !.pc[c] = "idle"]
    /\ UNCHANGED <<now, breakerVars, lim, guardianVars, tb>>

\* Caller c's request raises after admission: nothing is recorded.
Fails(c) ==
    /\ pf.pc[c] = "admitted"
    /\ pf' = [pf EXCEPT !.pc[c] = "idle"]
    /\ UNCHANGED <<now, breakerVars, limiterVars, guardianVars, tb>>

LedgersNext ==
    \/ BucketTick
    \/ \E c \in Callers : Admit(c)
    \/ \E c \in Callers, cost \in Costs : Charge(c, cost)
    \/ \E c \in Callers : Fails(c)

SpecLedgers == InitLedgers /\ [][LedgersNext]_vars

\* --------------------------------- sliding window limiter, stand-alone

\* SlidingWindowRateLimiter(max_requests, window_seconds), as constructed
\* for the check
max_requests == 2
window_seconds == 10
\* The keys (user_id) the limiter is asked about
Keys == {"u1", "u2"}

\* Variant: the limit is tested with > in place of >=.
check_rate_limit_above(requests, user_id, t) ==
    LET Evicted[q \in Seq([user_id : Keys, at : 0..t])] ==
            IF q # << >> /\ Head(q).at < t - window_seconds
            THEN Evicted[Tail(q)] ELSE q
        kept == Evicted[requests]
        user_requests == Len(SelectSeq(kept, LAMBDA e : e.user_id = user_id))
    IN  IF user_requests > max_requests
        THEN [requests |-> kept, raises |-> TRUE]
        ELSE [requests |-> Append(kept, [user_id |-> user_id, at |-> t]),
              raises |-> FALSE]

\* SlidingWindowRateLimiter.check_rate_limit: the deque it leaves and
\* whether it raises RateLimitExceededError.  Evicted pops the entries older
\* than the cutoff off the left end, as the while loop does.
check_rate_limit(requests, user_id, t) ==
    LET Evicted[q \in Seq([user_id : Keys, at : 0..t])] ==
            IF q # << >> /\ Head(q).at < t - window_seconds
            THEN Evicted[Tail(q)] ELSE q
        kept == Evicted[requests]
        user_requests == Len(SelectSeq(kept, LAMBDA e : e.user_id = user_id))
    IN  IF user_requests >= max_requests
        THEN [requests |-> kept, raises |-> TRUE]
        ELSE [requests |-> Append(kept, [user_id |-> user_id, at |-> t]),
              raises |-> FALSE]

InitWindow ==
    /\ Constructed(NewRateLimiter(0), enable_recovery)
    /\ pf = [stage |-> "window", requests |-> << >>, user_id |-> NoUser,
             raised |-> FALSE]

\* check_rate_limit(user_id) is called: it runs under the limiter's lock
\* with no await inside, so it is one step.
CheckRateLimit(user_id) ==
    /\ pf' = [pf EXCEPT
                 !.requests = check_rate_limit(pf.requests, user_id, now).requests,
                 !.user_id = user_id,
                 !.raised = check_rate_limit(pf.requests, user_id, now).raises]
    /\ UNCHANGED <<now, breakerVars, limiterVars, guardianVars, tb>>

WindowNext ==
    \/ BucketTick
    \/ \E user_id \in Keys : CheckRateLimit(user_id)

SpecWindow == InitWindow /\ [][WindowNext]_vars

\* ------------------------------------- assessment and output validation

\* HallucinationDetector._check_patterns, from the number of indicator
\* patterns found in the text (hundredths)
_check_patterns(matches) == Min(matches * 30, 100)

\* HallucinationDetector._check_length, from the number of words
_check_length(word_count) ==
    IF word_count < 5 THEN 50 ELSE IF word_count < 10 THEN 20 ELSE 0

\* HallucinationDetector.detect
detect(matches, word_count) ==
    Min((70 * _check_patterns(matches) + 30 * _check_length(word_count))
            \div 100, 100)

\* ContentSafetyChecker._check_category, from the number of the category's
\* patterns found in the text
_check_category(matches) == Min(matches * 40, 100)

\* ContentSafetyChecker.check_safety: the risk score, given the matches of
\* the category with the most matches
check_safety(matches) ==
    IF _check_category(matches) > 50 THEN _check_category(matches) ELSE 0

\* Texts by their number of words and of characters; how many hallucination
\* patterns and how many patterns of one harmful category a text matches.  A
\* text matching m hallucination patterns is as long as "I invented", "I'm
\* not sure", "my training cutoff", "I may be wrong" joined by commas, and a
\* harmful word takes five characters more.
MaxMatches == 4
PatternsPerCategory == 2
Texts ==
    { [words |-> 0, length |-> 0], [words |-> 1, length |-> 5],
      [words |-> 4, length |-> 30], [words |-> 7, length |-> 49],
      [words |-> 8, length |-> 50], [words |-> 9, length |-> 70],
      [words |-> 12, length |-> 100] }
Findings ==
    LET MinWords(m) == IF m < 4 THEN 2 * m ELSE 3 * m - 3
        MinLength(m) == IF m = 0 THEN 0 ELSE 19 * m - 9
    IN  { f \in [text : Texts, matches : 0..MaxMatches,
                  harmful : 0..PatternsPerCategory, off_task : BOOLEAN] :
            /\ f.text.words >= MinWords(f.matches)
            /\ f.text.length >= MinLength(f.matches) + 5 * f.harmful
            /\ f.harmful > 0 => f.text.words >= 1 }
RawResponses ==
    { MkResponse(20, detect(f.matches, f.text.words), check_safety(f.harmful),
                 f.off_task, f.text.length) : f \in Findings }

NoValidation == [is_valid |-> TRUE, severity |-> "low"]

InitQuality ==
    /\ Constructed(NewRateLimiter(0), enable_recovery)
    /\ pf \in { [stage |-> "generated", response |-> resp,
                  assessment |-> [safety_violations |-> FALSE,
                                  pass_validation |-> TRUE,
                                  recommended_action |-> "accept"],
                  result |-> NoValidation] : resp \in RawResponses }

\* QualityMonitor.assess_quality(response): annotates the response, and
\* returns or raises QualityCheckFailedError.
AssessQuality ==
    /\ pf.stage = "generated"
    /\ pf' = [pf EXCEPT !.stage = IF assess_quality(pf.response).raises
                                  THEN "raised" ELSE "assessed",
                        !.response = assess_quality(pf.response).response,
                        !.assessment = assess_quality(pf.response).assessment]
    /\ UNCHANGED <<now, breakerVars, limiterVars, guardianVars, tb>>

\* OutputValidator.validate_output(response), on an annotated response.
ValidateOutput ==
    /\ pf.stage = "assessed"
    /\ pf' = [pf EXCEPT !.stage = "validated",
                        !.result = validate_output(pf.response)]
    /\ UNCHANGED <<now, breakerVars, limiterVars, guardianVars, tb>>

QualityNext == AssessQuality \/ ValidateOutput

SpecQuality == InitQuality /\ [][QualityNext]_vars

\* --------------------------------------------- retry manager, stand-alone

\* RetryStrategy with the values of S6; delays are counted in milliseconds.
initial_delay == 1000
max_delay == 60000
exponential_base == 2
\* random.random(), in thousandths: a value of [0, 1).
RandomDraws == {0, 500, 999}
\* What the wrapped function raises: the retryable errors, two other
\* exceptions, and a cancellation.
FunctionErrors ==
    retryable_errors \cup {"LLMProviderAPIError", "ValueError", "CancelledError"}

\* Variant: the jitter factor is drawn from [0, 1).
get_delay_full_jitter(attempt, jitter, random) ==
    LET delay == Min(initial_delay * exponential_base ^ attempt, max_delay)
    IN  IF jitter THEN (delay * random) \div 1000 ELSE delay

\* RetryStrategy.get_delay
get_delay(attempt, jitter, random) ==
    LET delay == Min(initial_delay * exponential_base ^ attempt, max_delay)
    IN  IF jitter THEN (delay * (1000 + random)) \div 2000 ELSE delay

\* Variant: every exception is treated as retryable.
retry_any_exception(p, error, random) ==
    IF p.attempt < max_attempts - 1
    THEN [p EXCEPT !.pc = "sleeping", !.calls = @ + 1, !.observed = error,
                   !.last_exception = error,
                   !.sleeps = Append(@, get_delay(p.attempt, p.jitter, random))]
    ELSE [p EXCEPT !.pc = "raised", !.calls = @ + 1, !.observed = error,
                   !.last_exception = error,
                   !.raised = "RetryExhaustedError", !.cause = error]

\* RetryManager.execute_with_retry, from the wrapped function's raising error
\* to the sleep or to the exception leaving the loop
except_clauses(p, error, random) ==
    IF error \in retryable_errors
    THEN IF p.attempt < max_attempts - 1
         THEN [p EXCEPT !.pc = "sleeping", !.calls = @ + 1,
                        !.observed = error, !.last_exception = error,
                        !.sleeps =
                            Append(@, get_delay(p.attempt, p.jitter, random))]
         ELSE [p EXCEPT !.pc = "raised", !.calls = @ + 1,
                        !.observed = error, !.last_exception = error,
                        !.raised = "RetryExhaustedError", !.cause = error]
    ELSE [p EXCEPT !.pc = "raised", !.calls = @ + 1, !.observed = error,
                   !.raised = error]

\* execute_with_retry(func) is entered, with jitter configured or not.
InitRetry ==
    /\ Constructed(NewRateLimiter(0), enable_recovery)
    /\ pf \in { [stage |-> "retry", jitter |-> j, pc |-> "calling",
                  attempt |-> 0, calls |-> 0, sleeps |-> << >>,
                  observed |-> "none", last_exception |-> "none",
                  raised |-> "none", cause |-> "none"] : j \in BOOLEAN }

\* The wrapped function returns: so does execute_with_retry.
FuncReturns ==
    /\ pf.stage = "retry" /\ pf.pc = "calling"
    /\ pf' = [pf EXCEPT !.pc = "returned", !.calls = @ + 1,
                        !.observed = "none"]
    /\ UNCHANGED <<now, breakerVars, limiterVars, guardianVars, tb>>

\* The wrapped function raises.
FuncRaises(error, random) ==
    /\ pf.stage = "retry" /\ pf.pc = "calling"
    /\ pf' = except_clauses(pf, error, random)
    /\ UNCHANGED <<now, breakerVars, limiterVars, guardianVars, tb>>

\* asyncio.sleep(delay) is over: the loop goes to its next attempt.
SleepEnds ==
    /\ pf.stage = "retry" /\ pf.pc = "sleeping"
    /\ pf' = [pf EXCEPT !.pc = "calling", !.attempt = @ + 1]
    /\ UNCHANGED <<now, breakerVars, limiterVars, guardianVars, tb>>

RetryNext ==
    \/ FuncReturns
    \/ \E error \in FunctionErrors, random \in RandomDraws :
           FuncRaises(error, random)
    \/ SleepEnds

SpecRetry == InitRetry /\ [][RetryNext]_vars

\* ------------------------------------------------ guardian, as a process

\* The machine request slot s runs on.
Machine(s) ==
    [cb |-> cb, rl |-> rl, pm |-> pm, r |-> req[s],
     enable_recovery |-> g.enable_recovery]

\* The USD ledgers of a context: the limiter's two and the monitor's.
UserLedger(r, ctx) == Get(r.user_quotas, ctx.user_id, 0)
SessionLedger(r, ctx) == Get(r.session_costs, ctx.session_id, 0)
MonitorLedger(p, ctx) ==
    Get(p.user_costs, ctx.user_id, 0) + Get(p.session_costs, ctx.session_id, 0)

\* The request of machine m after a step from the current state, with what
\* the step did to the shared objects booked to it (observer): the growth of
\* the ledgers, the breaker failures recorded, and whether its breaker
\* admission fell inside recovery_timeout of the last recorded failure.
Observed(m) ==
    LET r == m.r
    IN  [r EXCEPT
           !.charged = [user |-> @.user + UserLedger(m.rl, r.ctx)
                                        - UserLedger(rl, r.ctx),
                        session |-> @.session + SessionLedger(m.rl, r.ctx)
                                              - SessionLedger(rl, r.ctx),
                        monitor |-> @.monitor + MonitorLedger(m.pm, r.ctx)
                                              - MonitorLedger(pm, r.ctx)],
           !.breaker_failures = @ + m.cb.total_failures - cb.total_failures,
           !.in_timeout = IF m.cb.total_calls > cb.total_calls
                          THEN g.t_fail # NoTime
                               /\ now - g.t_fail < recovery_timeout
                          ELSE @]

\* The step of slot s that leaves machine m.  started: execute_request was
\* called in the step; returned: a generate returned a response in it.
Commit(s, m, started, returned) ==
    /\ cb' = m.cb
    /\ rl' = m.rl
    /\ pm' = m.pm
    /\ req' = [req EXCEPT ![s] = Observed(m)]
    /\ g' = LET s2 == /\ g.s2
                      /\ ~returned
                      /\ m.r.outcome # "CancelledError"
                      /\ m.r.pc = "done"
                            => m.r.rejected \/ m.r.primary_calls > 0
            IN  [enable_recovery |-> g.enable_recovery,
                 issued |-> IF started THEN g.issued + 1 ELSE g.issued,
                 s2 |-> s2,
                 failed |-> IF ~s2 THEN 0
                            ELSE IF m.r.pc = "done" THEN g.failed + 1
                            ELSE g.failed,
                 t_fail |-> IF ~s2 THEN NoTime
                            ELSE IF m.cb.total_failures > cb.total_failures
                            THEN now
                            ELSE g.t_fail,
                 failing |-> IF ~s2 THEN {}
                             ELSE IF m.cb.total_failures > cb.total_failures
                             THEN g.failing \cup {m.r.provider}
                             ELSE g.failing]
    /\ UNCHANGED <<now, task, obs, lim, tb, pf>>

\* execute_request is called: steps 1 to 3, up to the checkpoint write.
Start(s, ctx, prompt, provider) ==
    /\ req[s].pc \in {"idle", "done"}
    /\ g.issued < (IF g.s2 THEN MaxRequests ELSE MaxMixedRequests)
    /\ Commit(s, Steps1to4(Machine(s), ctx, prompt, provider, now), TRUE, FALSE)

\* Step 4: save_checkpoint(pre_execution) ends, and step 5 begins if it
\* returned.
CheckpointPre(s) ==
    /\ req[s].pc = "ckpt_pre"
    /\ LET saved == save_checkpoint(Machine(s), "pre_execution")
       IN  Commit(s, IF saved.raises THEN saved.m ELSE Step5(saved.m, now),
                  FALSE, FALSE)

\* The generate in flight returns a response.
GenerateReturns(s, resp) ==
    /\ req[s].pc \in {"primary", "fallback"}
    /\ Commit(s, LoopReturns(Machine(s), resp, now), FALSE, TRUE)

\* The generate in flight raises.
GenerateRaises(s, error) ==
    /\ req[s].pc \in {"primary", "fallback"}
    /\ Commit(s, execute_with_retry(Machine(s), error, now), FALSE, FALSE)

\* The caller cancels the request while a provider call is in flight.
Cancel(s) ==
    /\ req[s].pc \in {"primary", "fallback"}
    /\ Commit(s, Cancelled(Machine(s)), FALSE, FALSE)

\* The clock advances while requests are served.
GuardianTick ==
    /\ now + TickLen <= MaxGuardianTime
    /\ now' = now + TickLen
    /\ UNCHANGED <<breakerVars, limiterVars, guardianVars, tb, pf>>

GuardianNext ==
    \/ GuardianTick
    \/ \E s \in Slots, ctx \in GuardianContexts, prompt \in Prompts,
          provider \in Providers : Start(s, ctx, prompt, provider)
    \/ \E s \in Slots : CheckpointPre(s)
    \/ \E s \in Slots, resp \in Responses : GenerateReturns(s, resp)
    \/ \E s \in Slots, error \in ProviderErrors : GenerateRaises(s, error)
    \/ \E s \in Slots : Cancel(s)

\* The guardian is constructed with or without recovery (checkpoints).
InitGuardian ==
    \E recovery \in BOOLEAN :
        Constructed(NewRateLimiter(0), recovery) /\ pf = NoFunction

SpecGuardian == InitGuardian /\ [][GuardianNext]_vars

\* ------------------------------------------------- token bucket claims

\* C11: TokenBucket conservation.  After any sequence of acquire calls, by
\* any callers and whether they returned True or False, the tokens handed
\* out are at most capacity + refill_rate * elapsed time, and the stored
\* token count is within [0, capacity].  Tokens are counted in sixtieths;
\* the refill rate is capacity / 60 per second and the bucket was made at
\* second 0, so refill_rate * elapsed * 60 = capacity * now.
C11_TokenBucketConservation ==
    /\ tb.handed_out * 60 <= tb.bucket.capacity * 60 + tb.bucket.capacity * now
    /\ tb.bucket.tokens >= 0
    /\ tb.bucket.tokens <= tb.bucket.capacity * 60

\* The bound is met: the bucket has handed out every token it ever held,
\* refilled ones included, and has just refused a call.
C11_Witness ==
    /\ now > 0
    /\ tb.handed_out * 60 = tb.bucket.capacity * 60 + tb.bucket.capacity * now
    /\ ~tb.result
    /\ tb.asked > 0

\* ------------------------------------------------- rate limiter claims

\* The step is one record_cost / one check_limits of the stand-alone limiter.
IsRecordStep == now' = now /\ lim'.op = "record_cost"
IsCheckStep == now' = now /\ lim'.op = "check_limits"

\* C9 (quota rollover): when a record_cost for a user follows that user's
\* previous record_cost made on an earlier UTC day, the user's ledger after it
\* equals exactly the cost just recorded; and an admission on a day later than
\* the user's last recorded cost is never refused for the user's daily quota,
\* whatever the earlier day's ledger had reached.
C9_QuotaRollover ==
    [][ /\ ( /\ IsRecordStep
             /\ lim'.user_id # NoUser
             /\ lim.last_record_day[lim'.user_id] # NoTime
             /\ lim.last_record_day[lim'.user_id] < Date(now) )
           => rl'.user_quotas[lim'.user_id] = lim'.cost
        /\ ( /\ IsCheckStep
             /\ lim'.user_id # NoUser
             /\ lim.last_record_day[lim'.user_id] # NoTime
             /\ lim.last_record_day[lim'.user_id] < Date(now) )
           => lim'.result # "QuotaExceeded:user"
      ]_vars

\* C9 witness: a cost of 0.40 recorded on day 1, the user's previous cost
\* having been recorded on day 0, leaves a ledger of 0.40.
C9_Witness ==
    /\ lim.op = "record_cost"
    /\ lim.user_id = "u1"
    /\ lim.cost = 40
    /\ lim.prev_record_day = 0
    /\ Date(now) = 1
    /\ rl.user_quotas["u1"] = 40
    /\ rl.session_costs = [x \in {"s1"} |-> 120]

\* C10 (S4 admission): an admission that the token buckets let through is
\* refused with the user's QuotaExceeded exactly when the costs recorded for
\* the user on the current UTC day have reached user_daily_quota_usd; with the
\* quota at 1.00 an admission after at most four costs of 0.20 is not refused
\* for quota and one after five costs of 0.20 is.
C10_QuotaAdmission ==
    [][ ( IsCheckStep /\ lim'.user_id # NoUser )
        => LET u == lim'.user_id
               spent == DaySpent(lim, u, now)
               n == DayRecords(lim, u, now)
               pastBuckets == lim'.result \notin {"RateLimitExceeded:global",
                                                  "RateLimitExceeded:user"}
           IN  /\ lim'.result = "QuotaExceeded:user" => spent >= user_daily_quota_usd
               /\ ( pastBuckets /\ spent >= user_daily_quota_usd )
                     => lim'.result = "QuotaExceeded:user"
               /\ ( n <= 4 /\ spent = 20 * n ) => lim'.result # "QuotaExceeded:user"
               /\ ( pastBuckets /\ n = 5 /\ spent = 20 * n )
                     => lim'.result = "QuotaExceeded:user"
      ]_vars

\* C10 witness: the sixth admission of the day, after five recorded costs of
\* 0.20, has just been refused with QuotaExceeded.
C10_Witness ==
    /\ lim.op = "check_limits"
    /\ lim.user_id = "u1"
    /\ lim.result = "QuotaExceeded:user"
    /\ DayRecords(lim, "u1", now) = 5
    /\ DaySpent(lim, "u1", now) = 100
    /\ rl.user_limiters["u1"].tokens = 0

\* ------------------------------------------------------ breaker claims

\* The step is the admission block of one call().
IsCallStep == cb'.total_calls = cb.total_calls + 1
\* The step records the outcome of a wrapped call.
IsSuccessStep == cb'.total_successes = cb.total_successes + 1
IsFailureStep == cb'.total_failures = cb.total_failures + 1
\* A wrapped function starts in the step.
StartsWrapped == \E c \in Callers : task[c].pc # "running" /\ task'[c].pc = "running"

\* C1 (breaker safety): a call() that arrives while the breaker is OPEN and
\* less than recovery_timeout has passed since last_failure_time raises
\* CircuitBreakerOpenError, starts no wrapped function and leaves the breaker
\* OPEN; and whenever a wrapped function does start in a step taken from
\* OPEN, the timeout had elapsed and the step moved the breaker to HALF_OPEN.
C1_BreakerSafety ==
    [][ /\ ( /\ IsCallStep
             /\ cb.state = "OPEN"
             /\ cb.last_failure_time # NoTime
             /\ now - cb.last_failure_time < recovery_timeout )
           => ( /\ task'[obs'.who].last = "rejected"
                /\ task'[obs'.who].pc = "idle"
                /\ ~StartsWrapped
                /\ cb'.state = "OPEN" )
        /\ ( cb.state = "OPEN" /\ StartsWrapped )
           => ( /\ IsCallStep
                /\ now - cb.last_failure_time >= recovery_timeout
                /\ cb'.state = "HALF_OPEN" )
      ]_vars

\* C1 witness: a call was just rejected by an OPEN breaker inside the timeout.
C1_Witness ==
    /\ obs.op = "call"
    /\ obs.pre = "OPEN"
    /\ task[obs.who].last = "rejected"
    /\ cb.state = "OPEN"
    /\ now - cb.last_failure_time < recovery_timeout

\* C2 (HALF_OPEN fragility): a failure recorded while HALF_OPEN opens the
\* breaker and zeroes success_count; a success recorded while HALF_OPEN closes
\* the breaker exactly when it is the success_threshold-th success recorded
\* since the breaker entered HALF_OPEN, and otherwise leaves it HALF_OPEN; no
\* recorded outcome or call closes a HALF_OPEN breaker in any other way.
C2_HalfOpenFragility ==
    [][ /\ ( cb.state = "HALF_OPEN" /\ IsFailureStep )
           => ( cb'.state = "OPEN" /\ cb'.success_count = 0 )
        /\ ( cb.state = "HALF_OPEN" /\ IsSuccessStep )
           => IF obs'.probes >= success_threshold
              THEN cb'.state = "CLOSED" /\ obs'.probes = success_threshold
              ELSE cb'.state = "HALF_OPEN"
        /\ ( cb.state = "HALF_OPEN" /\ cb'.state = "CLOSED" /\ obs'.op # "reset" )
           => ( IsSuccessStep /\ obs'.probes = success_threshold )
      ]_vars

\* C2 witness: a failure recorded in HALF_OPEN, after one successful probe,
\* re-opened the breaker.
C2_Witness ==
    /\ obs.op = "failure"
    /\ obs.pre = "HALF_OPEN"
    /\ obs.probes = 1
    /\ cb.state = "OPEN"
    /\ cb.success_count = 0

\* C8 (S3, half-open probe): a call that arrives at an OPEN breaker once
\* recovery_timeout has elapsed since last_failure_time moves it to HALF_OPEN
\* with success_count = 0 and starts the wrapped function; with
\* success_threshold = 2 the breaker is HALF_OPEN after the first success
\* recorded in HALF_OPEN and CLOSED after the second; a failure before any
\* success returns it to OPEN.
C8_HalfOpenProbe ==
    [][ /\ ( /\ IsCallStep
             /\ cb.state = "OPEN"
             /\ now - cb.last_failure_time >= recovery_timeout )
           => ( /\ cb'.state = "HALF_OPEN"
                /\ cb'.success_count = 0
                /\ task'[obs'.who].pc = "running" )
        /\ ( cb.state = "HALF_OPEN" /\ IsSuccessStep /\ obs.probes = 0 )
           => ( cb'.state = "HALF_OPEN" /\ cb'.success_count = 1 )
        /\ ( cb.state = "HALF_OPEN" /\ IsSuccessStep /\ obs.probes = 1 )
           => cb'.state = "CLOSED"
        /\ ( cb.state = "HALF_OPEN" /\ IsFailureStep /\ obs.probes = 0 )
           => cb'.state = "OPEN"
      ]_vars

\* C8 witness: the second successful probe has closed the breaker.
C8_Witness ==
    /\ obs.op = "success"
    /\ obs.pre = "HALF_OPEN"
    /\ obs.probes = 2
    /\ cb.state = "CLOSED"
    /\ Len(cb.state_history) >= 4

\* ------------------------------------------------------ guardian claims

\* The generate calls a request has made, and its audit events by kind.
ProviderCalls(r) == r.primary_calls + r.fallback_calls
RequestEvents(r) == Cardinality({i \in DOMAIN r.audit : r.audit[i] = "request"})
ResponseEvents(r) == Cardinality({i \in DOMAIN r.audit : r.audit[i] = "response"})
ErrorEvents(r) ==
    Cardinality({i \in DOMAIN r.audit : r.audit[i] \notin {"request", "response"}})
\* execute_request has raised.
Raised(r) == r.pc = "done" /\ r.outcome # "returned"
\* The step completes the execute_request in slot s.
Completes(s) ==
    /\ req'[s].pc = "done"
    /\ req[s].pc # "done" \/ g'.issued # g.issued

\* C3 (retry bound): an execute_request makes at most max_attempts generate
\* calls when no fallback is triggered, and at most 2 x max_attempts when
\* fallback is triggered.
C3_RetryBound ==
    \A s \in Slots :
        /\ req[s].fallbacks = 0 => ProviderCalls(req[s]) <= max_attempts
        /\ req[s].fallbacks > 0 => ProviderCalls(req[s]) <= 2 * max_attempts

\* C4 (audit completeness): once execute_request has returned or raised, the
\* audit log holds exactly one request event and exactly one event from
\* {response, error} for it; an error is audited exactly once.
C4_AuditCompleteness ==
    \A s \in Slots :
        req[s].pc = "done"
        => /\ RequestEvents(req[s]) = 1
           /\ ResponseEvents(req[s]) + ErrorEvents(req[s]) = 1
           /\ Raised(req[s]) => ErrorEvents(req[s]) = 1

\* C5 (cost on success only): an execute_request that raises before quality
\* assessment has completed has incremented no USD ledger of its user or
\* session: not the limiter's daily and session ledgers, not the monitor's.
C5_CostOnSuccessOnly ==
    \A s \in Slots :
        ( Raised(req[s]) /\ ~req[s].assessed )
        => /\ req[s].charged.user = 0
           /\ req[s].charged.session = 0
           /\ req[s].charged.monitor = 0

\* C5 witness: after an earlier request was charged, a request whose primary
\* failed and whose fallback response failed assess_quality has raised
\* QualityCheckFailedError, and nothing was booked to it.
C5_Witness ==
    \E s \in Slots :
        /\ Raised(req[s])
        /\ req[s].outcome = "QualityCheckFailedError"
        /\ req[s].fallbacks = 1
        /\ ~req[s].assessed
        /\ req[s].charged.user = 0
        /\ UserLedger(rl, req[s].ctx) > 0

\* C6 (a rejected request is not charged): an execute_request that raises
\* without having produced its response event, at whatever stage before it,
\* has not increased the limiter's user and session ledgers.
C6_RejectedNotCharged ==
    \A s \in Slots :
        ( Raised(req[s]) /\ ResponseEvents(req[s]) = 0 )
        => /\ req[s].charged.user = 0
           /\ req[s].charged.session = 0

\* C7 (S2): while every provider call has raised and requests are served one
\* after another, each failed execute_request records exactly one breaker
\* failure; the breaker is CLOSED after each of the first four and OPEN after
\* the fifth; the sixth, reaching the breaker before recovery_timeout has
\* passed since the last recorded failure, makes no call to the primary
\* provider and raises CircuitBreakerOpenError.
C7_BreakerOpensAfterFive ==
    [][ \A s \in Slots :
          ( /\ Completes(s)
            /\ g'.s2
            /\ \A o \in Slots \ {s} : req[o].pc \in {"idle", "done"} )
          => /\ g'.failed <= 4
                => cb'.state = "CLOSED" /\ req'[s].breaker_failures = 1
             /\ g'.failed = 5
                => cb'.state = "OPEN" /\ req'[s].breaker_failures = 1
             /\ ( g'.failed = 6 /\ req'[s].in_timeout )
                => /\ req'[s].outcome = "CircuitBreakerOpenError"
                   /\ req'[s].primary_calls = 0
                   /\ req'[s].breaker_failures = 0
                   /\ cb'.state = "OPEN"
      ]_vars

\* C7 witness: the sixth request in a row, its five predecessors having
\* failed at the provider, has raised CircuitBreakerOpenError within
\* recovery_timeout without a call to the primary provider.
C7_Witness ==
    \E s \in Slots :
        /\ g.s2
        /\ g.failed = 6
        /\ req[s].pc = "done"
        /\ req[s].in_timeout
        /\ req[s].outcome = "CircuitBreakerOpenError"
        /\ req[s].primary_calls = 0
        /\ cb.state = "OPEN"
        /\ cb.total_failures = 5

\* C12 (S1): an execute_request whose prompt matches an injection pattern,
\* with safety checks enabled, raises PromptInjectionError before admission:
\* the step that starts it ends it, leaves the rate limiter, the breaker and
\* the performance monitor as they were (no bucket token taken, no cost
\* recorded), makes no provider call, and leaves as the request's audit
\* events the request event followed by one error event whose error type is
\* PromptInjectionError.
C12_InjectionRejection ==
    [][ \A s \in Slots, prompt \in Prompts :
          ( /\ prompt.injection
            /\ enable_safety_checks
            /\ g'.issued = g.issued + 1
            /\ Start(s, req'[s].ctx, prompt, req'[s].provider) )
          => /\ Raised(req'[s])
             /\ req'[s].outcome = "PromptInjectionError"
             /\ ProviderCalls(req'[s]) = 0
             /\ req'[s].audit = <<"request", "PromptInjectionError">>
             /\ rl' = rl
             /\ pm' = pm
             /\ cb' = cb
      ]_vars

\* C12 witness: after an earlier request was charged to the same user, an
\* injection prompt has been rejected.
C12_Witness ==
    \E s \in Slots :
        /\ Raised(req[s])
        /\ req[s].outcome = "PromptInjectionError"
        /\ req[s].audit = <<"request", "PromptInjectionError">>
        /\ g.issued = 2
        /\ UserLedger(rl, req[s].ctx) > 0
        /\ rl.global_limiter.tokens < rl.global_limiter.capacity * 60

\* The annotated response is flagged as containing harmful content.
Flagged(resp) == assess_quality(resp).response.contains_harmful_content

C14_FallbackAtMostOnce ==
    \A s \in Slots : req[s].fallbacks <= 1

\* The error the step-5 handler logged (guardian.py 152): the one the
\* breaker-wrapped call on the primary provider raised.
PrimaryError(r) ==
    r.audit[CHOOSE i \in DOMAIN r.audit : r.audit_context[i] = "provider"]

\* What a retry loop raises when the generate in flight raises error and no
\* attempt follows.
LoopError(error) ==
    IF error \in retryable_errors THEN "RetryExhaustedError" ELSE error

\* C15: when the primary call has failed and the fallback invoked for it
\* fails as well, execute_request raises the original primary error, not the
\* fallback's, with the fallback's error attached as its cause, and the
\* fallback failure is audited as an error event marked fallback_attempted
\* (followed by the boundary's event for the error raised).
C15_FallbackFailureSurfacesPrimary ==
    [][ \A s \in Slots, error \in ProviderErrors :
          ( /\ req[s].pc = "fallback"
            /\ req[s].fb_stage = 5
            /\ req'[s].pc = "done"
            /\ GenerateRaises(s, error) )
          => /\ req'[s].outcome = PrimaryError(req[s])
             /\ req'[s].cause = LoopError(error)
             /\ req'[s].audit = req[s].audit
                                 \o <<LoopError(error), PrimaryError(req[s])>>
             /\ req'[s].audit_context = req[s].audit_context
                                 \o <<"fallback_attempted", NoContext>>
      ]_vars

\* C15 witness: a request has raised its primary's RetryExhaustedError with
\* the fallback's LLMProviderAPIError as cause, the latter audited with the
\* fallback_attempted marker.
C15_Witness ==
    \E s \in Slots :
        /\ Raised(req[s])
        /\ req[s].fallbacks = 1
        /\ req[s].outcome = "RetryExhaustedError"
        /\ req[s].cause = "LLMProviderAPIError"
        /\ \E i \in DOMAIN req[s].audit :
              /\ req[s].audit[i] = "LLMProviderAPIError"
              /\ req[s].audit_context[i] = "fallback_attempted"

\* The step starts a retry loop on the fallback provider for slot s.
FallbackStarts(s) == req'[s].fallbacks > req[s].fallbacks
\* The step ends a retry loop on the fallback provider for slot s: the loop
\* returns a response or raises.
FallbackEnds(s) ==
    /\ req[s].pc = "fallback"
    /\ req'[s].pc # "fallback" \/ FallbackStarts(s)
    /\ req'[s].outcome # "CancelledError"

\* C16: fallback calls run under the fallback provider's circuit breaker.
\* The guardian constructs one CircuitBreaker (self.circuit_breaker), so the
\* breaker a fallback call can run under is that one: no retry loop on the
\* fallback provider starts past a breaker that is OPEN inside its recovery
\* timeout, and the loop's success or failure is recorded by the breaker
\* (one more success or failure counted when the loop ends).
C16_FallbackUnderBreaker ==
    [][ \A s \in Slots :
          /\ FallbackStarts(s) => ~CallRejects(cb', now)
          /\ FallbackEnds(s)
             => cb'.total_successes + cb'.total_failures
                = cb.total_successes + cb.total_failures + 1
      ]_vars

\* The step is the breaker's admission of the request in slot s, and it
\* raises CircuitBreakerOpenError.
BreakerRejects(s) ==
    /\ g'.issued > g.issued \/ req[s].pc = "ckpt_pre"
    /\ req'[s].rejected

\* C17: circuit breaking is per provider.  A request rejected with
\* CircuitBreakerOpenError is addressed to a provider for which a failure
\* has been recorded: failures of requests addressed to one provider never
\* make the breaker reject a request addressed to another.  (g.failing is
\* the set of providers addressed by the requests whose failure the breaker
\* has recorded.)
C17_PerProviderBreaking ==
    [][ \A s \in Slots :
          BreakerRejects(s) => req'[s].provider \in g.failing ]_vars

\* The steps of execute_request (4.10), in the order the specification
\* gives them; step 5 is the breaker-wrapped call.
StepOrder ==
    <<"audit_request", "validate_input", "check_limits", "checkpoint_pre",
      "breaker_call", "assess_quality", "record_metrics", "record_cost",
      "validate_output", "audit_response", "checkpoint_completed">>
\* The steps the guardian's configuration leaves in: steps 4 and 10 are
\* skipped when recovery is off.
ConfiguredSteps ==
    SelectSeq(StepOrder,
              LAMBDA step : step \in {"checkpoint_pre", "checkpoint_completed"}
                            => g.enable_recovery)
IsCall(step) == step \in {"generate", "generate_returned"}
\* The steps a request went through, provider calls left out.
StepsOf(r) == SelectSeq(r.trace, LAMBDA step : ~IsCall(step))
\* The positions of a step in a request's trace.
At(r, step) == {i \in DOMAIN r.trace : r.trace[i] = step}
\* The steps an error of the given type can have been raised from.
RaisingSteps(error) ==
    CASE error = "PromptInjectionError" -> {"validate_input"}
      [] error = "ValidationError" -> {"validate_input", "generate"}
      [] error \in {"RateLimitExceededError", "QuotaExceededError"}
         -> {"check_limits"}
      [] error = "CheckpointSaveError"
         -> {"checkpoint_pre", "checkpoint_completed"}
      [] error = "QualityCheckFailedError" -> {"assess_quality"}
      [] error = "BudgetExceededError" -> {"record_metrics"}
      [] OTHER -> {"breaker_call", "generate"}

\* C18: within one execute_request the step order is strict.  The steps a
\* request has entered are an initial part of: audit(request), input
\* validation, admission, pre-execution checkpoint, breaker-wrapped call,
\* quality assessment, performance recording, record_cost, output
\* validation, audit(response), checkpoint(completed), each entered once.
\* Every provider call follows the breaker-wrapped call's start (hence
\* admission) and precedes audit(response); quality assessment follows a
\* provider call that returned.  A request that has raised entered no step
\* after the one that raised.  (Steps 4 and 10 are not part of the order
\* when recovery is off.)
C18_StepOrder ==
    \A s \in Slots :
        LET r == req[s]
            steps == StepsOf(r)
        IN  /\ Len(steps) <= Len(ConfiguredSteps)
            /\ steps = SubSeq(ConfiguredSteps, 1, Len(steps))
            /\ \A i \in At(r, "generate") :
                  /\ \E j \in At(r, "breaker_call") : j < i
                  /\ \A j \in At(r, "audit_response") : i < j
            /\ \A i \in At(r, "assess_quality") :
                  \E j \in At(r, "generate_returned") : j < i
            /\ Raised(r)
               => r.trace[Len(r.trace)] \in RaisingSteps(r.outcome)

\* C18 witness: a request has gone through every step of its guardian, its
\* response coming from the fallback invoked at step 5, and has returned.
C18_Witness ==
    \E s \in Slots :
        /\ req[s].pc = "done"
        /\ req[s].outcome = "returned"
        /\ req[s].fallbacks = 1
        /\ req[s].fb_stage = 5
        /\ StepsOf(req[s]) = ConfiguredSteps

\* The step cancels the request in slot s before its step 5 has completed:
\* during the primary's retry loop, or during that of the fallback invoked
\* by the step-5 handler.
CancelledAtStep5(s) ==
    /\ req[s].pc = "primary" \/ req[s].fb_stage = 5
    /\ req'[s].outcome = "CancelledError"
    /\ Cancel(s)

\* C19: when a request is cancelled while the provider call of step 5 is in
\* progress, (a) no cost is recorded: the limiter's and the monitor's ledgers
\* are left as they were and nothing is booked to the request; (b) no
\* completed checkpoint is written; (c) the request's checkpoint file is left
\* as it was; (d) the cancellation is audited as one further error event.
C19_Cancellation ==
    [][ \A s \in Slots :
          CancelledAtStep5(s)
          => /\ rl' = rl /\ pm' = pm
             /\ req'[s].charged = [user |-> 0, session |-> 0, monitor |-> 0]
             /\ req'[s].checkpoint # "completed"
             /\ req'[s].checkpoint = req[s].checkpoint
             /\ Len(req'[s].audit) = Len(req[s].audit) + 1
             /\ ErrorEvents(req'[s]) = ErrorEvents(req[s]) + 1
      ]_vars

\* C19 without (d): what the code does guarantee on cancellation at step 5.
C19_CancellationNoCostNoCompletion ==
    [][ \A s \in Slots :
          CancelledAtStep5(s)
          => /\ rl' = rl /\ pm' = pm
             /\ req'[s].charged = [user |-> 0, session |-> 0, monitor |-> 0]
             /\ req'[s].checkpoint = req[s].checkpoint
             /\ req'[s].audit = req[s].audit
             /\ cb' = cb
      ]_vars

\* The step changes an amount in the limiter's USD ledgers: some user's
\* daily ledger or some session's ledger.
LedgerChanges ==
    \/ \E u \in Users :
          Get(rl'.user_quotas, u, 0) # Get(rl.user_quotas, u, 0)
    \/ \E s \in Sessions :
          Get(rl'.session_costs, s, 0) # Get(rl.session_costs, s, 0)

\* C20: admission never changes the USD ledgers.  For every context and
\* every ledger state, a UTC date rollover since the last reset included,
\* check_limits leaves each user's daily ledger and each session's ledger as
\* it found them; the only operation that modifies their amounts is
\* record_cost.
C20_AdmissionLeavesLedgers ==
    [][ /\ IsCheckStep => ~LedgerChanges
        /\ LedgerChanges => IsRecordStep ]_vars

\* C21: OutputValidator severity.  For every annotated response whose
\* contains_harmful_content is true, validate_output returns is_valid = false
\* with severity critical, whatever its quality_score, is_hallucination and
\* response text.
C21_HarmfulIsCritical ==
    ( pf.stage = "validated" /\ pf.response.contains_harmful_content )
    => /\ ~pf.result.is_valid
       /\ pf.result.severity = "critical"

\* C22: admission order.  check_limits evaluates the global bucket, the
\* per-user bucket, the user's daily quota and the session budget in this
\* order and stops at the first check that fails (RateLimitExceeded for a
\* bucket, QuotaExceeded for quota or budget): a check after the failing one
\* leaves no trace, and the token each earlier bucket handed out is gone.  No
\* step of the limiter puts a token back: a bucket never holds more than its
\* refill since the last acquisition gives.
C22_AdmissionOrder ==
    [][ /\ rl'.global_limiter.tokens
               <= _refill(rl.global_limiter, now).tokens
        /\ \A u \in DOMAIN rl.user_limiters :
               rl'.user_limiters[u].tokens
                   <= _refill(rl.user_limiters[u], now).tokens
        /\ \A ctx \in Contexts :
             CheckLimits(ctx) =>
               LET u == ctx.user_id
                   seen == _get_user_limiter(rl, u, now).user_limiters
                   dated == _reset_user_quota_if_needed(rl, u, now)
                   global_ok == _refill(rl.global_limiter, now).tokens >= 60
                   user_ok == u # NoUser => _refill(seen[u], now).tokens >= 60
                   quota_ok == u # NoUser
                                 => Get(dated.user_quotas, u, 0)
                                        < user_daily_quota_usd
                   budget_ok == ctx.session_id # NoUser
                                  => Get(rl.session_costs, ctx.session_id, 0)
                                         < session_budget_usd
                   global_taken ==
                       rl'.global_limiter.tokens
                           = _refill(rl.global_limiter, now).tokens - 60
                   user_taken ==
                       u # NoUser
                         => rl'.user_limiters[u].tokens
                                = _refill(seen[u], now).tokens - 60
                   user_untouched == rl'.user_limiters = rl.user_limiters
                   quota_untouched ==
                       /\ rl'.user_quotas = rl.user_quotas
                       /\ rl'.user_quota_reset = rl.user_quota_reset
               IN  /\ ~global_ok
                        => /\ lim'.result = "RateLimitExceeded:global"
                           /\ user_untouched /\ quota_untouched
                   /\ global_ok /\ ~user_ok
                        => /\ lim'.result = "RateLimitExceeded:user"
                           /\ global_taken /\ quota_untouched
                   /\ global_ok /\ user_ok /\ ~quota_ok
                        => /\ lim'.result = "QuotaExceeded:user"
                           /\ global_taken /\ user_taken
                   /\ global_ok /\ user_ok /\ quota_ok /\ ~budget_ok
                        => /\ lim'.result = "QuotaExceeded:session"
                           /\ global_taken /\ user_taken
                   /\ global_ok /\ user_ok /\ quota_ok /\ budget_ok
                        => /\ lim'.result = "ok"
                           /\ global_taken /\ user_taken ]_vars

\* The quota check refuses user u1 after both buckets gave a token.
C22_Witness ==
    /\ lim.op = "check_limits"
    /\ lim.result = "QuotaExceeded:user"
    /\ rl.global_limiter.tokens < global_max_requests_per_minute * 60
    /\ rl.user_limiters["u1"].tokens = 0

\* C23: retry classification.  execute_with_retry calls the function again
\* only after an error of the retryable set; any other exception leaves the
\* loop at once and unchanged, with no further call and no sleep; when every
\* one of the max_attempts calls raised a retryable error, exactly
\* max_attempts calls were made and RetryExhaustedError is raised with the
\* last observed error as its cause.
C23_RetryClassification ==
    [][ /\ ( pf'.calls = pf.calls + 1 /\ pf.calls > 0 )
            => pf.observed \in retryable_errors
        /\ ( pf'.calls = pf.calls + 1
              /\ pf'.observed \in FunctionErrors \ retryable_errors )
            => /\ pf'.pc = "raised"
               /\ pf'.raised = pf'.observed
               /\ pf'.cause = "none"
               /\ pf'.sleeps = pf.sleeps
        /\ ( pf'.calls = pf.calls + 1
              /\ pf'.observed \in retryable_errors )
            => IF pf'.calls = max_attempts
               THEN /\ pf'.pc = "raised"
                    /\ pf'.raised = "RetryExhaustedError"
                    /\ pf'.cause = pf'.observed
               ELSE pf'.pc = "sleeping"
        /\ pf.pc \in {"raised", "returned"} => pf'.calls = pf.calls
        /\ pf'.calls <= max_attempts ]_vars

\* Three calls raised retryable errors, the last one a plain timeout.
C23_Witness ==
    /\ pf.stage = "retry"
    /\ pf.raised = "RetryExhaustedError"
    /\ pf.calls = max_attempts
    /\ pf.cause = "TimeoutError"

\* The sleep after attempt k lies between half the backoff delay and the
\* whole of it, in milliseconds.
SleepInBounds(k) ==
    /\ k + 1 <= Len(pf.sleeps)
    /\ pf.sleeps[k + 1] * 2 >= Min(1000 * 2 ^ k, 60000)
    /\ pf.sleeps[k + 1] <= Min(1000 * 2 ^ k, 60000)

\* C24 as stated (S6): with max_attempts = 3, initial_delay = 1, base = 2,
\* max_delay = 60 and jitter on, every attempt k in {0, 1, 2} that fails with
\* a retryable error is followed by a sleep of
\* [0.5 * min(base^k, 60), 1.0 * min(base^k, 60)] seconds, and after three
\* failures RetryExhaustedError is raised.
C24_SleepAfterEveryAttempt ==
    ( pf.stage = "retry" /\ pf.jitter /\ pf.raised = "RetryExhaustedError" )
    => \A k \in 0..2 : SleepInBounds(k)

\* C24, amended: every attempt k in {0, 1} that fails with a retryable error
\* is followed by a sleep of [0.5 * min(base^k, 60), 1.0 * min(base^k, 60)]
\* seconds; the third failure (k = 2) is followed by no sleep, and
\* RetryExhaustedError is raised at once.
C24_SleepBetweenAttempts ==
    ( pf.stage = "retry" /\ pf.jitter )
    => /\ \A k \in 0..1 :
             ( pf.attempt > k \/ (pf.attempt = k /\ pf.pc = "sleeping")
               \/ pf.raised = "RetryExhaustedError" )
             => SleepInBounds(k)
       /\ Len(pf.sleeps) <= max_attempts - 1
       /\ ( pf.calls = max_attempts /\ pf.observed \in retryable_errors )
             => /\ pf.raised = "RetryExhaustedError"
                /\ Len(pf.sleeps) = max_attempts - 1

\* Three retryable failures with jitter on: two sleeps, the longest draws.
C24_Witness ==
    /\ pf.stage = "retry" /\ pf.jitter
    /\ pf.raised = "RetryExhaustedError"
    /\ pf.sleeps = <<999, 1999>>

\* C25: annotation completeness.  After assess_quality returned normally,
\* response.quality_level is the category of response.quality_score by the
\* thresholds (>= 0.9 excellent, >= 0.75 good, >= 0.6 acceptable, >= 0.3
\* poor, otherwise unsafe), and response.is_hallucination holds only if the
\* hallucination probability is above 0.7.
C25_AnnotationCompleteness ==
    pf.stage \in {"assessed", "validated"}
    => /\ pf.response.quality_level = "excellent"
             <=> pf.response.quality_score >= 900
       /\ pf.response.quality_level = "good"
             <=> ( pf.response.quality_score >= 750
                   /\ pf.response.quality_score < 900 )
       /\ pf.response.quality_level = "acceptable"
             <=> ( pf.response.quality_score >= 600
                   /\ pf.response.quality_score < 750 )
       /\ pf.response.quality_level = "poor"
             <=> ( pf.response.quality_score >= 300
                   /\ pf.response.quality_score < 600 )
       /\ pf.response.quality_level = "unsafe"
             <=> pf.response.quality_score < 300
       /\ pf.response.is_hallucination
             => pf.response.hallucination_score > 70

\* A harmful response scoring exactly 0.6 was assessed: acceptable.
C25_Witness ==
    /\ pf.stage = "assessed"
    /\ pf.response.quality_score = 600
    /\ pf.response.quality_level = "acceptable"
    /\ pf.response.contains_harmful_content

\* C26: CLOSED-state transitions.  In CLOSED a success resets failure_count
\* to 0 and keeps the breaker CLOSED; a failure increments failure_count, and
\* the breaker stays CLOSED while failure_count < failure_threshold and
\* becomes OPEN exactly when failure_count reaches failure_threshold.
\* failure_count counts the failures since the last success (or reset): it
\* changes in no other way, and a CLOSED breaker always holds a count below
\* the threshold, so only failure_threshold failures in a row open it.
C26_ClosedTransitions ==
    [][ /\ ( IsSuccessStep /\ cb.state = "CLOSED" )
            => ( cb'.failure_count = 0 /\ cb'.state = "CLOSED" )
        /\ ( IsFailureStep /\ cb.state = "CLOSED" )
            => /\ cb'.failure_count = cb.failure_count + 1
               /\ cb'.failure_count < failure_threshold => cb'.state = "CLOSED"
               /\ cb'.failure_count = failure_threshold => cb'.state = "OPEN"
               /\ cb'.failure_count <= failure_threshold
        /\ ( cb.state = "CLOSED" /\ cb'.state = "OPEN" )
            => ( IsFailureStep /\ cb'.failure_count = failure_threshold )
        /\ cb'.failure_count # cb.failure_count
            => \/ IsFailureStep /\ cb'.failure_count = cb.failure_count + 1
               \/ IsSuccessStep /\ cb'.failure_count = 0
               \/ obs'.op = "reset" /\ cb'.failure_count = 0
        /\ IsSuccessStep => cb'.failure_count = 0
        /\ cb'.state = "CLOSED" => cb'.failure_count < failure_threshold ]_vars

\* A run of failure_threshold failures after an earlier success opened the
\* breaker.
C26_Witness ==
    /\ obs.op = "failure" /\ obs.pre = "CLOSED"
    /\ cb.state = "OPEN"
    /\ cb.failure_count = failure_threshold
    /\ cb.total_successes > 0

\* C27: the half-open probe is single.  After an OPEN breaker's recovery
\* timeout has elapsed, at most one wrapped call admitted in HALF_OPEN is in
\* flight while the breaker is HALF_OPEN: a call that arrives while a probe
\* is outstanding is not executed.
C27_SingleProbe ==
    cb.state = "HALF_OPEN"
    => Cardinality({ c \in Callers : /\ task[c].pc = "running"
                                      /\ task[c].admitted = "HALF_OPEN" }) <= 1

\* C28: the breaker's lock is never held while a wrapped call executes.
\* call() releases the lock before invoking the function and takes it again
\* only to record the outcome: a caller holds the lock only inside the
\* admission block, _on_success or _on_failure, and the caller of a function
\* in flight, or of one that has ended and waits to be recorded, does not
\* hold it.
C28_LockNotHeldDuringCall ==
    \A c \in Callers :
        /\ task[c].pc \in {"running", "returned", "raised", "idle"}
              => pf.holder # c
        /\ pf.holder = c
              => task[c].pc \in {"admission", "on_success", "on_failure"}

\* Two calls admitted by the same breaker are in flight at the same time,
\* and the lock is free.
C28_Witness ==
    /\ pf.stage = "lock"
    /\ pf.holder = "none"
    /\ \A c \in Callers : task[c].pc = "running"

\* C29: per-request cost limit.  Whenever a request sets max_cost_usd (any
\* value >= 0, 0 included) and the cost of the response is greater than it,
\* record_metrics raises BudgetExceededError, execute_request raises it, and
\* RateLimiter.record_cost is not called for the request: the rate limiter's
\* ledgers stay as they were.  Stated for the responses that reach
\* record_metrics: those of the primary provider and of the fallback that
\* replaced a failed primary call, for which assess_quality did not raise.
C29_PerRequestCostLimit ==
    [][ \A s \in Slots, resp \in Responses :
          ( /\ req[s].pc \in {"primary", "fallback"}
            /\ req[s].pc = "fallback" => req[s].fb_stage = 5
            /\ resp.cost_usd > req[s].ctx.max_cost_usd
            /\ ~assess_quality(resp).raises
            /\ GenerateReturns(s, resp) )
          => /\ req'[s].pc = "done"
             /\ req'[s].outcome = "BudgetExceededError"
             /\ At(req'[s], "record_cost") = {}
             /\ UserLedger(rl', req[s].ctx) = UserLedger(rl, req[s].ctx)
             /\ SessionLedger(rl', req[s].ctx) = SessionLedger(rl, req[s].ctx)
      ]_vars

\* The request has returned a response to its caller.
Returned(r) == r.pc = "done" /\ r.outcome = "returned"

\* C30: checkpoint stages.  With recovery enabled, the checkpoint file of a
\* request, if there is one, carries a stage: completed if and only if
\* execute_request returned a response, and pre_execution if the request
\* raised after step 4 (it had begun step 5); no file exists if the request
\* raised during validation or admission.  (One file per request_id: the
\* completed record takes the place of the pre_execution one.)
C30_CheckpointStages ==
    \A s \in Slots :
        LET r == req[s]
        IN  g.enable_recovery
            => /\ r.checkpoint \in {"none", "pre_execution", "completed"}
               /\ r.checkpoint = "completed" <=> Returned(r)
               /\ Raised(r) /\ At(r, "breaker_call") # {}
                  => r.checkpoint = "pre_execution"
               /\ Raised(r) /\ At(r, "checkpoint_pre") = {}
                  => r.checkpoint = "none"

\* What the code does with recovery enabled: no request gets past step 4,
\* and a checkpoint file that exists holds no record.
CheckpointNeverWritten ==
    \A s \in Slots :
        /\ req[s].checkpoint \in {"none", "empty"}
        /\ g.enable_recovery
           => /\ At(req[s], "breaker_call") = {}
              /\ ~Returned(req[s])
              /\ req[s].checkpoint = "empty"
                 <=> req[s].outcome = "CheckpointSaveError"

\* C31: quality verdict.  Once assess_quality has ended, pass_validation is
\* true exactly when there are no safety violations, is_hallucination is
\* false and the score is at least 0.5; recommended_action is reject if there
\* is a safety violation, else fallback if not pass and score < 0.3, else
\* review if not pass, else accept if score >= 0.75, else review; and
\* assess_quality has raised QualityCheckFailedError exactly when
\* pass_validation is false and the score is below 0.3.
C31_QualityVerdict ==
    pf.stage \in {"assessed", "raised", "validated"}
    => LET a == pf.assessment
           score == pf.response.quality_score
       IN  /\ a.pass_validation
              <=> /\ ~a.safety_violations
                  /\ ~pf.response.is_hallucination
                  /\ score >= 500
           /\ a.recommended_action =
                 CASE a.safety_violations -> "reject"
                   [] ~a.safety_violations /\ ~a.pass_validation
                      /\ score < 300 -> "fallback"
                   [] ~a.safety_violations /\ ~a.pass_validation
                      /\ score >= 300 -> "review"
                   [] ~a.safety_violations /\ a.pass_validation
                      /\ score >= 750 -> "accept"
                   [] OTHER -> "review"
           /\ pf.stage = "raised" <=> ~a.pass_validation /\ score < 300

\* C31 witness: a likely hallucination that scores above 0.5 has been
\* assessed: it does not pass, is to be reviewed, and nothing was raised.
C31_Witness ==
    /\ pf.stage = "assessed"
    /\ pf.response.is_hallucination
    /\ pf.response.quality_score >= 500
    /\ ~pf.assessment.pass_validation
    /\ pf.assessment.recommended_action = "review"

\* C32: TokenBucket.acquire(n).  The call first refills: tokens becomes
\* min(capacity, tokens + elapsed * rate) and last_refill becomes now; then,
\* when the refilled tokens are at least n, it subtracts n and returns true,
\* and otherwise it returns false and leaves the refilled bucket as it is.
\* (Sixtieths of a token; rate = capacity / 60 per second.  Every step of the
\* bucket that is not the passing of time is an acquire.)
C32_AcquireEffect ==
    [][ now' = now
        => LET b == tb.bucket
               n == tb'.asked
               refilled == IF b.tokens + (now - b.last_refill) * b.capacity
                              <= b.capacity * 60
                           THEN b.tokens + (now - b.last_refill) * b.capacity
                           ELSE b.capacity * 60
           IN  /\ tb'.bucket.last_refill = now
               /\ tb'.bucket.capacity = b.capacity
               /\ tb'.result <=> refilled >= n * 60
               /\ tb'.result => tb'.bucket.tokens = refilled - n * 60
               /\ ~tb'.result => tb'.bucket.tokens = refilled
      ]_vars

\* C32 witness: a call has just been refused by a bucket that the same call
\* refilled: it holds part of the tokens asked for, more than nothing.
C32_Witness ==
    /\ now > 0
    /\ ~tb.result
    /\ tb.asked > 0
    /\ tb.bucket.last_refill = now
    /\ tb.bucket.tokens > 0
    /\ tb.bucket.tokens < tb.asked * 60

\* The entries of key u stored in q with a timestamp inside the window that
\* ends at t.
InWindow(q, u, t) ==
    SelectSeq(q, LAMBDA e : e.user_id = u /\ e.at >= t - window_seconds)

\* C33: SlidingWindowCounter.  In every state, for every key, the stored
\* entries of that key with a timestamp inside the current window are at
\* most max_requests.  And every check_rate_limit evicts the entries older
\* than now - window before it counts; if it signals exceeded it appends
\* nothing, and if it accepts it appends exactly one entry (key, now).
C33_SlidingWindow ==
    /\ \A u \in Keys : Len(InWindow(pf.requests, u, now)) <= max_requests
    /\ [][ now' = now
           => LET old == pf.requests
                  key == pf'.user_id
                  fresh == SelectSeq(old,
                               LAMBDA e : e.at >= now - window_seconds)
                  exceeded == Len(InWindow(old, key, now)) >= max_requests
              IN  /\ pf'.raised <=> exceeded
                  /\ pf'.raised => pf'.requests = fresh
                  /\ ~pf'.raised
                     => pf'.requests
                        = Append(fresh, [user_id |-> key, at |-> now])
         ]_vars

\* C33 witness: well after the first window, a check of a key has been
\* refused with max_requests entries of that key in the window, while
\* entries of another key are stored too.
C33_Witness ==
    /\ pf.raised
    /\ now >= 2 * window_seconds
    /\ Len(InWindow(pf.requests, pf.user_id, now)) = max_requests
    /\ \E i \in DOMAIN pf.requests : pf.requests[i].user_id # pf.user_id

\* C34: with safety checks and monitoring enabled, execute_request never
\* returns to its caller a response whose contains_harmful_content flag is
\* true: such a response is replaced by a fallback response, or the request
\* raises.
C34_NoHarmfulResponseReturned ==
    \A s \in Slots :
        Returned(req[s]) => ~req[s].delivered.contains_harmful_content

\* Request r entered steps 6 to 8 after its last provider call returned, in
\* their order and before audit(response), and what it added to the user's
\* and the session's ledger is the cost of the response it returned.
AssessedAndCharged(r) ==
    \E g0 \in At(r, "generate_returned"), a \in At(r, "assess_quality"),
       m \in At(r, "record_metrics"), c \in At(r, "record_cost"),
       v \in At(r, "validate_output"), u \in At(r, "audit_response") :
        /\ \A g1 \in At(r, "generate_returned") : g1 <= g0
        /\ g0 < a /\ a < m /\ m < c /\ c < v /\ v < u
        /\ r.charged.user = r.delivered.cost_usd
        /\ r.charged.session = r.delivered.cost_usd

\* C35: with monitoring and safety checks enabled, every response that
\* execute_request returns, whether it came from the primary provider, from
\* the step-5 fallback or from the fallback taken after a critical
\* output-validation failure, has passed through assess_quality,
\* record_metrics, record_cost (its own cost charged to the ledgers) and
\* validate_output before being audited and returned.
C35_ReturnedResponseAssessed ==
    \A s \in Slots : Returned(req[s]) => AssessedAndCharged(req[s])

\* C35 for the responses of the primary provider and of the step-5 fallback,
\* which the code does take through steps 6 to 8.
C35_ExceptValidationFallback ==
    \A s \in Slots :
        Returned(req[s]) /\ req[s].fb_stage # 8 => AssessedAndCharged(req[s])

\* The cost of the dearest request.
MaxCost == CHOOSE cost \in Costs : \A other \in Costs : other <= cost

\* C36: under concurrent requests of one user within one UTC day, in every
\* interleaving of admission and record_cost, the user's daily ledger never
\* exceeds user_daily_quota_usd by more than the cost of a single request,
\* and likewise the session's ledger and session_budget_usd.
C36_BoundedOvershoot ==
    /\ UserLedger(rl, SharedContext) <= user_daily_quota_usd + MaxCost
    /\ SessionLedger(rl, SharedContext) <= session_budget_usd + MaxCost

\* What the code does bound: each request in flight at a time can add its
\* cost beyond the limit its admission saw.
C36_OvershootPerCaller ==
    /\ UserLedger(rl, SharedContext)
          < user_daily_quota_usd + Cardinality(Callers) * MaxCost
    /\ SessionLedger(rl, SharedContext)
          < session_budget_usd + Cardinality(Callers) * MaxCost

\* The step records the outcome of caller c's wrapped function.
OutcomeOf(c) == WrappedReturns(c) \/ WrappedRaises(c)

\* C37: under concurrent calls through one breaker, the late success or
\* failure of a call admitted before the breaker opened (admitted in CLOSED,
\* the breaker being HALF_OPEN by now) does not count toward success_count
\* and neither closes nor re-opens the breaker; the breaker goes from
\* HALF_OPEN to CLOSED, reset() apart, only by the success of a call that
\* was admitted while it was HALF_OPEN.
C37_LateOutcomesDoNotCount ==
    [][ \A c \in Callers :
          /\ ( /\ cb.state = "HALF_OPEN"
               /\ task[c].admitted = "CLOSED"
               /\ OutcomeOf(c) )
             => /\ cb'.success_count = cb.success_count
                /\ cb'.state = "HALF_OPEN"
          /\ ( /\ cb.state = "HALF_OPEN"
               /\ cb'.state = "CLOSED"
               /\ WrappedReturns(c) )
             => task[c].admitted = "HALF_OPEN"
      ]_vars


\* C38: bounded recovery.  While the breaker is OPEN, last_state_change is
\* the time T at which it entered OPEN (reset would have closed it).  A call
\* that arrives at a time >= T + recovery_timeout is admitted as a probe:
\* the breaker moves to HALF_OPEN and the wrapped function starts, whatever
\* outcomes of earlier calls were recorded in between.
C38_BoundedRecovery ==
    [][ \A c \in Callers :
          ( /\ cb.state = "OPEN"
            /\ now - cb.last_state_change >= recovery_timeout
            /\ BreakerCall(c) )
          => /\ cb'.state = "HALF_OPEN"
             /\ task'[c].pc = "running"
      ]_vars

\* The part of C38 the code keeps: the recovery timeout counted from the
\* last recorded failure.
C38_RecoveryAfterLastFailure ==
    [][ \A c \in Callers :
          ( /\ cb.state = "OPEN"
            /\ cb.last_failure_time # NoTime
            /\ now - cb.last_failure_time >= recovery_timeout
            /\ BreakerCall(c) )
          => /\ cb'.state = "HALF_OPEN"
             /\ task'[c].pc = "running"
      ]_vars


\* C39: after assess_quality returns normally the annotated response has
\* quality_score >= 0.3 and its quality_level is not unsafe, also when it
\* reaches output validation; every response that scores below 0.3 makes
\* assess_quality raise QualityCheckFailedError.
C39_ReturnedScoreFloor ==
    /\ pf.stage \in {"assessed", "validated"}
       => /\ pf.response.quality_score >= 300
          /\ pf.response.quality_level # "unsafe"
    /\ ( /\ pf.stage \in {"assessed", "raised", "validated"}
         /\ pf.response.quality_score < 300 )
       => pf.stage = "raised"

\* C39 witness: a response that fails validation with the lowest score
\* category a returned response can have has gone on to output validation.
C39_Witness ==
    /\ pf.stage = "validated"
    /\ ~pf.assessment.pass_validation
    /\ pf.response.quality_score < 500
    /\ pf.response.quality_level = "poor"

\* A response below the floor: assess_quality raised.
C39_RaisedBelowFloor ==
    /\ pf.stage = "raised"
    /\ pf.response.quality_score < 300
    /\ pf.response.quality_level = "unsafe"


\* C40: breaker counter invariants, in every reachable state under any
\* interleaving of call, outcome recording and reset: CLOSED implies
\* failure_count < failure_threshold; success_count < success_threshold;
\* success_count > 0 implies HALF_OPEN; OPEN implies last_failure_time is
\* set; total_successes + total_failures <= total_calls; the last entry of
\* state_history is the current state and no two consecutive entries are
\* equal.
C40_CounterInvariants ==
    /\ cb.state = "CLOSED" => cb.failure_count < failure_threshold
    /\ cb.success_count < success_threshold
    /\ cb.success_count > 0 => cb.state = "HALF_OPEN"
    /\ cb.state = "OPEN" => cb.last_failure_time # NoTime
    /\ cb.total_successes + cb.total_failures <= cb.total_calls
    /\ cb.state_history[Len(cb.state_history)][1] = cb.state
    /\ \A k \in 1..(Len(cb.state_history) - 1) :
          cb.state_history[k][1] # cb.state_history[k + 1][1]

\* C40 witness: the breaker has opened, been reset while a call was in
\* flight, and has recorded failures again after the reset.
C40_Witness ==
    /\ obs.op = "failure"
    /\ cb.state = "CLOSED"
    /\ cb.failure_count > 0
    /\ Len(cb.state_history) >= 3
    /\ cb.state_history[2][1] = "OPEN"
    /\ cb.total_successes + cb.total_failures < cb.total_calls
    /\ \E c \in Callers : task[c].pc = "running"

====
